---- MODULE Spec2Model ----
(***************************************************************************)
(* Praeda procedural loot generator: the Catalog held by PraedaGenerator,  *)
(* its setters, the weighted selector, the attribute scaler and the item   *)
(* assembler (generate_loot / generate_item / calculate_attributes).       *)
(*                                                                         *)
(* Conventions of the model                                                *)
(*  - a HashMap is a function whose DOMAIN is the set of keys present;     *)
(*    a Vec is a sequence;                                                 *)
(*  - f64 attribute values, levels and scaling factors are integers (all   *)
(*    values of the model are small whole numbers, exact in f64);          *)
(*  - base_level and level_variance are counted in halves (3 is 1.5), so   *)
(*    that the `as i32` cast of calculate_attributes truncates;            *)
(*  - affix_chance and the f64 draws of the random source are counted in   *)
(*    halves too: a draw is 0 (0.0) or 1 (0.5), never 2 (1.0);             *)
(*  - every value the random source can return is a nondeterministic       *)
(*    choice; a panic (an abort of the call) is the outcome kind "panic".  *)
(***************************************************************************)
EXTENDS Integers, Sequences, FiniteSets, TLC

VARIABLES quality_data, item_types, item_list, item_attributes, item_affixes,
          subtype_metadata, item_name_metadata, loot_list, last, sel

catalog == <<quality_data, item_types, item_list, item_attributes,
             item_affixes, subtype_metadata, item_name_metadata>>

vars == <<quality_data, item_types, item_list, item_attributes, item_affixes,
          subtype_metadata, item_name_metadata, loot_list, last, sel>>

(***************************************************************************)
(* Bounds of the model.                                                    *)
(***************************************************************************)
\* Weights given to the setters range over 0..MaxWeight.
MaxWeight == 1
\* number_of_items ranges over 0..MaxItems.
MaxItems == 2
\* Weights handed to the selector alone range over -1..MaxSelectWeight.
MaxSelectWeight == 2
\* Levels handed to the scaler alone range over 0..MaxLevel.
MaxLevel == 2
\* Attribute values accumulated by the setters stay within MaxValue.
MaxValue == 2

(***************************************************************************)
(* Maps.                                                                   *)
(***************************************************************************)
EmptyMap == [x \in {} |-> x]

Put(m, k, v) == [x \in (DOMAIN m) \cup {k} |-> IF x = k THEN v ELSE m[x]]

Has(m, k) == k \in DOMAIN m

(***************************************************************************)
(* String order.  Rust sorts Strings bytewise; SortedNames lists every     *)
(* name of the model in that order.                                        *)
(***************************************************************************)
SortedNames == <<"", "armor", "axe", "bow", "common", "epic", "rare",
                 "shield", "sword", "weapon">>

Rank(n) == CHOOSE i \in 1..Len(SortedNames) : SortedNames[i] = n

RECURSIVE SortKeys(_)
SortKeys(S) ==
    IF S = {} THEN <<>>
    ELSE LET m == CHOOSE x \in S : \A y \in S : Rank(x) <= Rank(y)
         IN  <<m>> \o SortKeys(S \ {m})

(***************************************************************************)
(* Results.                                                                *)
(***************************************************************************)
Ok(v) == [kind |-> "ok", value |-> v]
Err(msg) == [kind |-> "err", value |-> msg]
Panic(msg) == [kind |-> "panic", value |-> msg]

(***************************************************************************)
(* Weighted Selector: PraedaGenerator::weighted_random_select.             *)
(***************************************************************************)
RECURSIVE SumWeights(_, _)
SumWeights(weights, keys) ==
    IF keys = {} THEN 0
    ELSE LET k == CHOOSE x \in keys : TRUE
         IN  weights[k] + SumWeights(weights, keys \ {k})

\* let total_weight: i32 = weights.values().sum();
total_weight(weights) == SumWeights(weights, DOMAIN weights)

\* rng.random_range(lo..hi): the values it can return; none when the range
\* is empty, where rand panics.
random_range(lo, hi) == lo..(hi - 1)

\* rng.random::<f64>(): a value of [0, 1), in halves.
random_f64 == {0, 1}

\* Mutant of SelectWalk: the loop tests `roll <= 0`.
RECURSIVE SelectWalkLeq(_, _, _, _)
SelectWalkLeq(weights, sorted_keys, i, roll) ==
    IF i > Len(sorted_keys) THEN Err("Failed to select from weights")
    ELSE LET r == roll - weights[sorted_keys[i]]
         IN  IF r <= 0 THEN Ok(sorted_keys[i])
             ELSE SelectWalkLeq(weights, sorted_keys, i + 1, r)

\* for key in sorted_keys { roll -= weights[key]; if roll < 0 { return Ok } }
\* and the Err after the loop.
RECURSIVE SelectWalk(_, _, _, _)
SelectWalk(weights, sorted_keys, i, roll) ==
    IF i > Len(sorted_keys) THEN Err("Failed to select from weights")
    ELSE LET r == roll - weights[sorted_keys[i]]
         IN  IF r < 0 THEN Ok(sorted_keys[i])
             ELSE SelectWalk(weights, sorted_keys, i + 1, r)

\* The selector once the random source has returned `roll`.
select_with_roll(weights, roll) ==
    SelectWalk(weights, SortKeys(DOMAIN weights), 1, roll)

\* rng.random_range(0..total_weight): the rolls the selector can draw.
select_draws(weights) == random_range(0, total_weight(weights))

\* Mutant of weighted_random_select: the empty mapping is not rejected
\* before the roll is drawn.
weighted_random_select_unchecked(weights) ==
    IF select_draws(weights) = {}
    THEN {Panic("cannot sample empty range")}
    ELSE {select_with_roll(weights, roll) : roll \in select_draws(weights)}

\* Every outcome of one call of the selector.
weighted_random_select(weights) ==
    IF DOMAIN weights = {}
    THEN {Err("No items to select from")}
    ELSE IF select_draws(weights) = {}
         THEN {Panic("cannot sample empty range")}
         ELSE {select_with_roll(weights, roll) : roll \in select_draws(weights)}

(***************************************************************************)
(* models.rs: ItemAttribute, Affix, Item.                                  *)
(***************************************************************************)
\* ItemAttribute::new; scaling_factor and chance are stored and never read
\* by the generator, and are left out.
ItemAttribute(name, initial_value, min, max, required) ==
    [name |-> name, initial_value |-> initial_value, min |-> min,
     max |-> max, required |-> required]

\* ItemAttribute::set_initial_value
set_initial_value(attr, initial_value) ==
    IF attr.min = 0 /\ attr.max = 0
    THEN [attr EXCEPT !.min = initial_value, !.max = initial_value,
                      !.initial_value = initial_value]
    ELSE [attr EXCEPT !.initial_value = initial_value]

\* f64::powf for a whole exponent >= 0 (the levels of the model).
RECURSIVE powf(_, _)
powf(x, n) == IF n <= 0 THEN 1 ELSE x * powf(x, n - 1)

\* Mutant of generate_value: the result is clamped to max when a max is set.
generate_value_clamped(attr, new_level, linear, scaling_factor) ==
    LET a1 == IF attr.min = 0 /\ attr.max = 0 /\ attr.initial_value # 0
              THEN [attr EXCEPT !.min = attr.initial_value,
                                !.max = attr.initial_value]
              ELSE attr
        v1 == IF a1.initial_value = 0 /\ ~linear THEN 1 ELSE a1.initial_value
        v2 == IF linear THEN v1 + new_level * scaling_factor
              ELSE v1 * powf(scaling_factor, new_level)
        v3 == IF v2 < 0 THEN 0 ELSE v2
        v4 == IF a1.max # 0 /\ v3 > a1.max THEN a1.max ELSE v3
    IN  [a1 EXCEPT !.initial_value = v4]

\* Mutant of generate_value: zero bounds are seeded after scaling, with the
\* scaled value.
generate_value_rebound(attr, new_level, linear, scaling_factor) ==
    LET v1 == IF attr.initial_value = 0 /\ ~linear THEN 1
              ELSE attr.initial_value
        v2 == IF linear THEN v1 + new_level * scaling_factor
              ELSE v1 * powf(scaling_factor, new_level)
        v3 == IF v2 < 0 THEN 0 ELSE v2
    IN  IF attr.min = 0 /\ attr.max = 0 /\ v3 # 0
        THEN [attr EXCEPT !.initial_value = v3, !.min = v3, !.max = v3]
        ELSE [attr EXCEPT !.initial_value = v3]

\* ItemAttribute::generate_value
generate_value(attr, new_level, linear, scaling_factor) ==
    LET a1 == IF attr.min = 0 /\ attr.max = 0 /\ attr.initial_value # 0
              THEN [attr EXCEPT !.min = attr.initial_value,
                                !.max = attr.initial_value]
              ELSE attr
        v1 == IF a1.initial_value = 0 /\ ~linear THEN 1 ELSE a1.initial_value
        v2 == IF linear THEN v1 + new_level * scaling_factor
              ELSE v1 * powf(scaling_factor, new_level)
        v3 == IF v2 < 0 THEN 0 ELSE v2
    IN  [a1 EXCEPT !.initial_value = v3]

\* Affix::new, Affix::empty
Affix(name, attributes) == [name |-> name, attributes |-> attributes]

Affix_empty == Affix("", <<>>)

\* The first position of a Vec of named things (attributes, affixes) whose
\* name is `name`, 0 when there is none (Iterator::position).
PositionByName(vec, name) ==
    LET hits == {i \in 1..Len(vec) : vec[i].name = name}
    IN  IF hits = {} THEN 0
        ELSE CHOOSE i \in hits : \A j \in hits : i <= j

\* Mutant of Affix::set_attribute: the value is added to a same-named
\* attribute, as PraedaGenerator::set_attribute does.
Affix_set_attribute_adding(affix, new_attribute) ==
    LET pos == PositionByName(affix.attributes, new_attribute.name)
    IN  IF pos # 0
        THEN [affix EXCEPT !.attributes[pos].initial_value =
                              @ + new_attribute.initial_value]
        ELSE [affix EXCEPT !.attributes = Append(@, new_attribute)]

\* Affix::set_attribute
Affix_set_attribute(affix, new_attribute) ==
    LET pos == PositionByName(affix.attributes, new_attribute.name)
    IN  IF pos # 0
        THEN [affix EXCEPT !.attributes[pos] = new_attribute]
        ELSE [affix EXCEPT !.attributes = Append(@, new_attribute)]

\* Item::new
Item(name, quality, item_type, subtype, prefix, suffix, attributes) ==
    [name |-> name, quality |-> quality, item_type |-> item_type,
     subtype |-> subtype, prefix |-> prefix, suffix |-> suffix,
     attributes |-> attributes, metadata |-> EmptyMap]

\* ItemType::new; its own metadata map is never read by the generator.
ItemType(item_type, subtypes, weight) ==
    [item_type |-> item_type, subtypes |-> subtypes, weight |-> weight]

\* str::contains("_requirement") on the attribute names of the model.
RequirementNames == {"level_requirement"}

contains_requirement(name) == name \in RequirementNames

(***************************************************************************)
(* generator.rs: the Catalog's setters and queries.                        *)
(***************************************************************************)
\* self.item_types.iter().find(|it| it.item_type == type_name): the first
\* position holding the type, 0 when there is none.
TypePosition(types, type_name) ==
    LET hits == {i \in 1..Len(types) : types[i].item_type = type_name}
    IN  IF hits = {} THEN 0
        ELSE CHOOSE i \in hits : \A j \in hits : i <= j

\* PraedaGenerator::set_quality_data
set_quality_data(quality, weight) ==
    /\ quality_data' = Put(quality_data, quality, weight)
    /\ UNCHANGED <<item_types, item_list, item_attributes, item_affixes,
                   subtype_metadata, item_name_metadata, loot_list>>

\* Mutant of set_item_type: an existing type is replaced by a fresh one.
set_item_type_replacing(type_name, weight) ==
    /\ LET pos == TypePosition(item_types, type_name)
       IN  item_types' =
             IF pos # 0
             THEN [item_types EXCEPT
                     ![pos] = ItemType(type_name, EmptyMap, weight)]
             ELSE Append(item_types, ItemType(type_name, EmptyMap, weight))
    /\ UNCHANGED <<quality_data, item_list, item_attributes, item_affixes,
                   subtype_metadata, item_name_metadata, loot_list>>

\* PraedaGenerator::set_item_type
set_item_type(type_name, weight) ==
    /\ LET pos == TypePosition(item_types, type_name)
       IN  item_types' =
             IF pos # 0
             THEN [item_types EXCEPT ![pos].weight = weight]
             ELSE Append(item_types, ItemType(type_name, EmptyMap, weight))
    /\ UNCHANGED <<quality_data, item_list, item_attributes, item_affixes,
                   subtype_metadata, item_name_metadata, loot_list>>

\* PraedaGenerator::set_item_subtype (ItemType::add_subtype)
set_item_subtype(type_name, subtype, weight) ==
    /\ LET pos == TypePosition(item_types, type_name)
       IN  item_types' =
             IF pos # 0
             THEN [item_types EXCEPT ![pos].subtypes = Put(@, subtype, weight)]
             ELSE Append(item_types,
                         ItemType(type_name, Put(EmptyMap, subtype, weight), 0))
    /\ UNCHANGED <<quality_data, item_list, item_attributes, item_affixes,
                   subtype_metadata, item_name_metadata, loot_list>>

\* PraedaGenerator::set_item
set_item(type_name, subtype, names) ==
    /\ item_list' = Put(item_list, <<type_name, subtype>>, names)
    /\ UNCHANGED <<quality_data, item_types, item_attributes, item_affixes,
                   subtype_metadata, item_name_metadata, loot_list>>

\* PraedaGenerator::set_attribute
set_attribute(type_name, subtype, attribute) ==
    /\ LET key == <<type_name, subtype>>
           attributes == IF Has(item_attributes, key)
                         THEN item_attributes[key] ELSE <<>>
           pos == PositionByName(attributes, attribute.name)
       IN  item_attributes' =
             Put(item_attributes, key,
                 IF pos # 0
                 THEN [attributes EXCEPT ![pos].initial_value =
                                            @ + attribute.initial_value]
                 ELSE Append(attributes, attribute))
    /\ UNCHANGED <<quality_data, item_types, item_list, item_affixes,
                   subtype_metadata, item_name_metadata, loot_list>>

\* PraedaGenerator::set_affix_attribute
set_affix_attribute(type_name, subtype, is_prefix, affix_name, attribute) ==
    /\ LET key == <<type_name, subtype>>
           affix_data == IF Has(item_affixes, key)
                         THEN item_affixes[key] ELSE <<<<>>, <<>>>>
           affixes == IF is_prefix THEN affix_data[1] ELSE affix_data[2]
           pos == PositionByName(affixes, affix_name)
           updated == IF pos # 0
                      THEN [affixes EXCEPT
                              ![pos] = Affix_set_attribute(@, attribute)]
                      ELSE Append(affixes, Affix(affix_name, <<attribute>>))
       IN  item_affixes' =
             Put(item_affixes, key,
                 IF is_prefix THEN <<updated, affix_data[2]>>
                 ELSE <<affix_data[1], updated>>)
    /\ UNCHANGED <<quality_data, item_types, item_list, item_attributes,
                   subtype_metadata, item_name_metadata, loot_list>>

\* PraedaGenerator::set_subtype_metadata
set_subtype_metadata(item_type, subtype, key, value) ==
    /\ LET type_key == <<item_type, subtype>>
           m == IF Has(subtype_metadata, type_key)
                THEN subtype_metadata[type_key] ELSE EmptyMap
       IN  subtype_metadata' = Put(subtype_metadata, type_key, Put(m, key, value))
    /\ UNCHANGED <<quality_data, item_types, item_list, item_attributes,
                   item_affixes, item_name_metadata, loot_list>>

\* PraedaGenerator::set_item_name_metadata
set_item_name_metadata(item_type, subtype, item_name, key, value) ==
    /\ LET type_key == <<item_type, subtype, item_name>>
           m == IF Has(item_name_metadata, type_key)
                THEN item_name_metadata[type_key] ELSE EmptyMap
       IN  item_name_metadata' =
             Put(item_name_metadata, type_key, Put(m, key, value))
    /\ UNCHANGED <<quality_data, item_types, item_list, item_attributes,
                   item_affixes, subtype_metadata, loot_list>>

\* PraedaGenerator::has_quality
has_quality(quality) ==
    IF quality = "" THEN TRUE ELSE Has(quality_data, quality)

\* PraedaGenerator::has_item_type
has_item_type(type_name) ==
    IF type_name = "" THEN TRUE
    ELSE \E i \in 1..Len(item_types) : item_types[i].item_type = type_name

\* Mutant of has_item_subtype: an empty subtype is a wildcard only under a
\* type that exists.
has_item_subtype_strict(type_name, subtype) ==
    IF type_name = "" THEN TRUE
    ELSE LET pos == TypePosition(item_types, type_name)
         IN  IF pos # 0
             THEN subtype = "" \/ Has(item_types[pos].subtypes, subtype)
             ELSE FALSE

\* PraedaGenerator::has_item_subtype (ItemType::has_subtype)
has_item_subtype(type_name, subtype) ==
    IF type_name = "" \/ subtype = "" THEN TRUE
    ELSE LET pos == TypePosition(item_types, type_name)
         IN  IF pos # 0 THEN Has(item_types[pos].subtypes, subtype)
             ELSE FALSE

\* Mutant of has_attribute: an empty argument is a wildcard.
has_attribute_wildcard(type_name, subtype, attr_name) ==
    IF type_name = "" \/ subtype = "" \/ attr_name = "" THEN TRUE
    ELSE IF ~has_item_type(type_name) \/ ~has_item_subtype(type_name, subtype)
    THEN FALSE
    ELSE LET key == <<type_name, subtype>>
         IN  IF Has(item_attributes, key)
             THEN \E i \in 1..Len(item_attributes[key]) :
                    item_attributes[key][i].name = attr_name
             ELSE FALSE

\* PraedaGenerator::has_attribute
has_attribute(type_name, subtype, attr_name) ==
    IF ~has_item_type(type_name) \/ ~has_item_subtype(type_name, subtype)
    THEN FALSE
    ELSE LET key == <<type_name, subtype>>
         IN  IF Has(item_attributes, key)
             THEN \E i \in 1..Len(item_attributes[key]) :
                    item_attributes[key][i].name = attr_name
             ELSE FALSE

(***************************************************************************)
(* generator.rs: the Item Assembler.                                       *)
(***************************************************************************)
\* The four scope keys consulted for an item, in the order of the code.
scope_keys(item_type, subtype) ==
    << <<"", "">>, <<item_type, "">>, <<"", subtype>>, <<item_type, subtype>> >>

\* item_types.iter().map(|it| (it.item_type, it.weight)).collect(): a later
\* entry of the same name replaces an earlier one.
type_weights ==
    [n \in {item_types[i].item_type : i \in 1..Len(item_types)} |->
        LET hits == {i \in 1..Len(item_types) : item_types[i].item_type = n}
        IN  item_types[CHOOSE i \in hits : \A j \in hits : j <= i].weight]

\* Mutant of select_quality: an override the catalog does not hold is
\* ignored.
select_quality_if_known(overrides) ==
    IF overrides.quality_override # ""
       /\ Has(quality_data, overrides.quality_override)
    THEN {Ok(overrides.quality_override)}
    ELSE weighted_random_select(quality_data)

\* generate_item, "Select quality"
select_quality(overrides) ==
    IF overrides.quality_override # ""
    THEN {Ok(overrides.quality_override)}
    ELSE weighted_random_select(quality_data)

\* generate_item, "Select item type"
select_type(overrides) ==
    IF overrides.type_override # ""
    THEN {Ok(overrides.type_override)}
    ELSE weighted_random_select(type_weights)

\* Mutant of select_subtype: a type with no subtypes gives the empty
\* subtype instead of a selector failure.
select_subtype_lenient(overrides, item_type) ==
    IF overrides.subtype_override # ""
    THEN {Ok(overrides.subtype_override)}
    ELSE LET pos == TypePosition(item_types, item_type)
         IN  IF pos # 0 /\ DOMAIN item_types[pos].subtypes # {}
             THEN weighted_random_select(item_types[pos].subtypes)
             ELSE {Ok("")}

\* generate_item, "Select subtype"
select_subtype(overrides, item_type) ==
    IF overrides.subtype_override # ""
    THEN {Ok(overrides.subtype_override)}
    ELSE LET pos == TypePosition(item_types, item_type)
         IN  IF pos # 0
             THEN weighted_random_select(item_types[pos].subtypes)
             ELSE {Ok("")}

\* Mutant of select_name: without a list for (type, subtype), the global
\* list is used.
select_name_fallback(item_type, subtype) ==
    LET exact == <<item_type, subtype>>
        key == IF Has(item_list, exact) THEN exact ELSE <<"", "">>
    IN  IF Has(item_list, key) /\ item_list[key] # <<>>
        THEN {item_list[key][i] :
                i \in random_range(1, Len(item_list[key]) + 1)}
        ELSE {subtype}

\* generate_item, "Select item name": every name the draw can pick.
select_name(item_type, subtype) ==
    LET key == <<item_type, subtype>>
    IN  IF Has(item_list, key) /\ item_list[key] # <<>>
        THEN {item_list[key][i] :
                i \in random_range(1, Len(item_list[key]) + 1)}
        ELSE {subtype}

\* Mutant of affix_pool: an affix already in the pool is not added again.
RECURSIVE affix_pool_dedup(_, _, _)
affix_pool_dedup(keys, i, which) ==
    IF i > Len(keys) THEN <<>>
    ELSE LET rest == affix_pool_dedup(keys, i + 1, which)
             here == IF Has(item_affixes, keys[i])
                     THEN item_affixes[keys[i]][which] ELSE <<>>
         IN  SelectSeq(here, LAMBDA a : \A j \in 1..Len(rest) : rest[j] # a)
               \o rest

\* valid_prefixes (which = 1) or valid_suffixes (which = 2): the affixes of
\* the four scopes, appended in order.
RECURSIVE affix_pool(_, _, _)
affix_pool(keys, i, which) ==
    IF i > Len(keys) THEN <<>>
    ELSE (IF Has(item_affixes, keys[i]) THEN item_affixes[keys[i]][which]
          ELSE <<>>) \o affix_pool(keys, i + 1, which)

\* The affix chosen for one side, `roll` being the f64 drawn for it.
select_affix(item_type, subtype, which, roll, affix_chance) ==
    LET pool == affix_pool(scope_keys(item_type, subtype), 1, which)
    IN  IF roll < affix_chance /\ pool # <<>>
        THEN {pool[i] : i \in random_range(1, Len(pool) + 1)}
        ELSE {Affix_empty}

\* `x as i32` of an f64 counted in halves: truncation toward zero.
as_i32(halves) ==
    IF halves >= 0 THEN halves \div 2 ELSE 0 - ((0 - halves) \div 2)

\* rng.random_range(lo..=hi) of calculate_attributes: the levels it can
\* return; none when the range is empty, where rand panics.
level_draws(options) ==
    random_range(as_i32(options.base_level - options.level_variance),
                 as_i32(options.base_level + options.level_variance) + 1)

\* The attribute lists of the four scopes, in the order the two nested
\* loops of calculate_attributes visit them.
RECURSIVE scoped_attributes(_, _)
scoped_attributes(keys, i) ==
    IF i > Len(keys) THEN <<>>
    ELSE (IF Has(item_attributes, keys[i]) THEN item_attributes[keys[i]]
          ELSE <<>>) \o scoped_attributes(keys, i + 1)

\* calculate_attributes, what is stored for one required attribute.
required_value(attr, generated_level, options) ==
    IF contains_requirement(attr.name)
    THEN set_initial_value(attr, generated_level)
    ELSE generate_value(attr, generated_level, options.linear,
                        options.scaling_factor)

\* Mutant of apply_required: a name already stored is not overwritten.
RECURSIVE apply_required_first_wins(_, _, _, _, _)
apply_required_first_wins(attributes, scoped, i, generated_level, options) ==
    IF i > Len(scoped) THEN attributes
    ELSE apply_required_first_wins(
           IF scoped[i].required /\ ~Has(attributes, scoped[i].name)
           THEN Put(attributes, scoped[i].name,
                    required_value(scoped[i], generated_level, options))
           ELSE attributes,
           scoped, i + 1, generated_level, options)

\* calculate_attributes, "Process required attributes".
RECURSIVE apply_required(_, _, _, _, _)
apply_required(attributes, scoped, i, generated_level, options) ==
    IF i > Len(scoped) THEN attributes
    ELSE apply_required(
           IF scoped[i].required
           THEN Put(attributes, scoped[i].name,
                    required_value(scoped[i], generated_level, options))
           ELSE attributes,
           scoped, i + 1, generated_level, options)

\* Mutant of optional_value: the scaled value is what is added to an
\* attribute the item already carries.
optional_value_scaling(attributes, attr, generated_level, options) ==
    LET scaled == generate_value(attr, generated_level, options.linear,
                                 options.scaling_factor)
        final_attr ==
          IF Has(attributes, attr.name)
          THEN [attributes[attr.name] EXCEPT
                  !.initial_value = @ + scaled.initial_value]
          ELSE IF ~contains_requirement(attr.name)
               THEN scaled
               ELSE attr
    IN  IF contains_requirement(final_attr.name)
        THEN set_initial_value(final_attr, generated_level)
        ELSE final_attr

\* calculate_attributes, one optional attribute whose roll succeeded.
optional_value(attributes, attr, generated_level, options) ==
    LET final_attr ==
          IF Has(attributes, attr.name)
          THEN [attributes[attr.name] EXCEPT
                  !.initial_value = @ + attr.initial_value]
          ELSE IF ~contains_requirement(attr.name)
               THEN generate_value(attr, generated_level, options.linear,
                                   options.scaling_factor)
               ELSE attr
    IN  IF contains_requirement(final_attr.name)
        THEN set_initial_value(final_attr, generated_level)
        ELSE final_attr

\* calculate_attributes, "Process optional attributes with affix chance";
\* rolls[i] is the f64 drawn for the i-th optional attribute.
RECURSIVE apply_optional(_, _, _, _, _, _)
apply_optional(attributes, optional, i, rolls, generated_level, options) ==
    IF i > Len(optional) THEN attributes
    ELSE apply_optional(
           IF rolls[i] <= options.affix_chance
           THEN Put(attributes, optional[i].name,
                    optional_value(attributes, optional[i], generated_level,
                                   options))
           ELSE attributes,
           optional, i + 1, rolls, generated_level, options)

\* Mutant of affix_value: the `_requirement` override is left out.
affix_value_accumulating(attributes, affix_attr, generated_level) ==
    IF Has(attributes, affix_attr.name)
    THEN [attributes[affix_attr.name] EXCEPT
            !.initial_value = @ + affix_attr.initial_value]
    ELSE affix_attr

\* Mutant of affix_value: the affix's attribute replaces the one the item
\* carries.
affix_value_replacing(attributes, affix_attr, generated_level) ==
    IF contains_requirement(affix_attr.name)
    THEN set_initial_value(affix_attr, generated_level)
    ELSE affix_attr

\* calculate_attributes, one attribute of the chosen prefix or suffix.
affix_value(attributes, affix_attr, generated_level) ==
    LET final_attr ==
          IF Has(attributes, affix_attr.name)
          THEN [attributes[affix_attr.name] EXCEPT
                  !.initial_value = @ + affix_attr.initial_value]
          ELSE affix_attr
    IN  IF contains_requirement(final_attr.name)
        THEN set_initial_value(final_attr, generated_level)
        ELSE final_attr

\* calculate_attributes, "Apply prefix attributes" / "Apply suffix attributes".
RECURSIVE apply_affix(_, _, _, _)
apply_affix(attributes, affix_attributes, i, generated_level) ==
    IF i > Len(affix_attributes) THEN attributes
    ELSE apply_affix(
           Put(attributes, affix_attributes[i].name,
               affix_value(attributes, affix_attributes[i], generated_level)),
           affix_attributes, i + 1, generated_level)

\* The outcome of generating one item: kind "ok" with the item, or "err" /
\* "panic" with the message.  The other fields record locals of
\* calculate_attributes: the level drawn, the item's attributes at the end
\* of "Process required attributes" and at the end of "Process optional
\* attributes", and, for each attribute of the optional pool in order,
\* whether its roll passed.
ItemOutcome(kind, value, generated_level, after_required, after_optional, applied) ==
    [kind |-> kind, value |-> value, generated_level |-> generated_level,
     after_required |-> after_required, after_optional |-> after_optional,
     applied |-> applied]

ItemFailure(r) == ItemOutcome(r.kind, r.value, 0, EmptyMap, EmptyMap, <<>>)

\* Mutant of level_attribute: the bounds are seeded with the level.
level_attribute_bounded(generated_level) ==
    ItemAttribute("level", generated_level, generated_level, generated_level,
                  FALSE)

\* calculate_attributes, the attribute stored under "level".
level_attribute(generated_level) ==
    ItemAttribute("level", generated_level, 0, 0, FALSE)

\* The optional pool: the non-required attributes of the four scopes.
optional_attributes(scoped) == SelectSeq(scoped, LAMBDA a : ~a.required)

\* PraedaGenerator::calculate_attributes: every outcome for `item`.
calculate_attributes(item, options) ==
    IF level_draws(options) = {}
    THEN {ItemOutcome("panic", "cannot sample empty range", 0, EmptyMap,
                      EmptyMap, <<>>)}
    ELSE LET scoped == scoped_attributes(
                         scope_keys(item.item_type, item.subtype), 1)
             optional == optional_attributes(scoped)
         IN  { LET a0 == Put(EmptyMap, "level",
                             level_attribute(generated_level))
                   a1 == apply_required(a0, scoped, 1, generated_level,
                                        options)
                   a2 == apply_optional(a1, optional, 1, rolls,
                                        generated_level, options)
                   a3 == apply_affix(a2, item.prefix.attributes, 1,
                                     generated_level)
                   a4 == apply_affix(a3, item.suffix.attributes, 1,
                                     generated_level)
               IN  ItemOutcome("ok", [item EXCEPT !.attributes = a4],
                               generated_level, a1, a2,
                               [i \in 1..Len(optional) |->
                                  rolls[i] <= options.affix_chance])
               : generated_level \in level_draws(options),
                 rolls \in [1..Len(optional) -> random_f64] }

\* Mutant of attach_metadata: the subtype's value wins over the item name's.
attach_metadata_subtype_wins(item) ==
    LET sub_key == <<item.item_type, item.subtype>>
        name_key == <<item.item_type, item.subtype, item.name>>
        m1 == IF Has(subtype_metadata, sub_key)
              THEN subtype_metadata[sub_key] ELSE EmptyMap
        m2 == IF Has(item_name_metadata, name_key)
              THEN item_name_metadata[name_key] ELSE EmptyMap
    IN  [item EXCEPT !.metadata =
           [k \in (DOMAIN m1) \cup (DOMAIN m2) |->
              IF k \in DOMAIN m1 THEN m1[k] ELSE m2[k]]]

\* generate_item, "Attach subtype metadata" then "Attach per-item metadata".
attach_metadata(item) ==
    LET sub_key == <<item.item_type, item.subtype>>
        name_key == <<item.item_type, item.subtype, item.name>>
        m1 == IF Has(subtype_metadata, sub_key)
              THEN subtype_metadata[sub_key] ELSE EmptyMap
        m2 == IF Has(item_name_metadata, name_key)
              THEN item_name_metadata[name_key] ELSE EmptyMap
    IN  [item EXCEPT !.metadata =
           [k \in (DOMAIN m1) \cup (DOMAIN m2) |->
              IF k \in DOMAIN m2 THEN m2[k] ELSE m1[k]]]

\* generate_item from the item name on, for a selected quality, type and
\* subtype.
assemble_item(quality, item_type, subtype, options) ==
    UNION { { IF o.kind = "ok"
              THEN [o EXCEPT !.value = attach_metadata(o.value)]
              ELSE o
              : o \in calculate_attributes(
                        Item(name, quality, item_type, subtype, prefix,
                             suffix, EmptyMap), options) }
            : name \in select_name(item_type, subtype),
              prefix \in UNION {select_affix(item_type, subtype, 1, r,
                                             options.affix_chance) :
                                  r \in random_f64},
              suffix \in UNION {select_affix(item_type, subtype, 2, r,
                                             options.affix_chance) :
                                  r \in random_f64} }

\* PraedaGenerator::generate_item: every outcome of one call.
generate_item(options, overrides) ==
    UNION { IF q.kind # "ok" THEN {ItemFailure(q)}
            ELSE UNION { IF t.kind # "ok" THEN {ItemFailure(t)}
                         ELSE UNION { IF s.kind # "ok" THEN {ItemFailure(s)}
                                      ELSE assemble_item(q.value, t.value,
                                                         s.value, options)
                                      : s \in select_subtype(overrides,
                                                             t.value) }
                         : t \in select_type(overrides) }
            : q \in select_quality(overrides) }

\* The result of generate_loot: kind "ok" with the items returned, or "err"
\* / "panic" with no items.  trace lists the outcome of every generate_item
\* call the loop made (everything but the item).
LootResult(kind, items, trace) ==
    [kind |-> kind, items |-> items, trace |-> trace]

TraceEntry(o) ==
    [kind |-> o.kind, generated_level |-> o.generated_level,
     after_required |-> o.after_required,
     after_optional |-> o.after_optional, applied |-> o.applied]

\* Mutant of loot_loop: a failure returns the items generated before it.
RECURSIVE loot_loop_partial(_, _, _, _)
loot_loop_partial(outcomes, remaining, items, trace) ==
    IF remaining = 0 THEN {LootResult("ok", items, trace)}
    ELSE UNION { IF o.kind = "ok"
                 THEN loot_loop_partial(outcomes, remaining - 1,
                                        Append(items, o.value),
                                        Append(trace, TraceEntry(o)))
                 ELSE {LootResult(o.kind, items,
                                  Append(trace, TraceEntry(o)))}
                 : o \in outcomes }

\* for _ in 0..options.number_of_items { let item = generate_item(..)?; .. }
RECURSIVE loot_loop(_, _, _, _)
loot_loop(outcomes, remaining, items, trace) ==
    IF remaining = 0 THEN {LootResult("ok", items, trace)}
    ELSE UNION { IF o.kind = "ok"
                 THEN loot_loop(outcomes, remaining - 1,
                                Append(items, o.value),
                                Append(trace, TraceEntry(o)))
                 ELSE {LootResult(o.kind, <<>>,
                                  Append(trace, TraceEntry(o)))}
                 : o \in outcomes }

\* PraedaGenerator::generate_loot: every result of one call.
generate_loot_results(options, overrides) ==
    loot_loop(generate_item(options, overrides), options.number_of_items,
              <<>>, <<>>)

\* What the last call on the generator was, and what it returned.
Call(op, options, overrides, key, result) ==
    [op |-> op, options |-> options, overrides |-> overrides, key |-> key,
     result |-> result]

NoOptions ==
    [number_of_items |-> 0, base_level |-> 0, level_variance |-> 0,
     affix_chance |-> 0, linear |-> TRUE, scaling_factor |-> 0]

NoOverrides ==
    [quality_override |-> "", type_override |-> "", subtype_override |-> ""]

NoResult == LootResult("none", <<>>, <<>>)

Setter(op) == Call(op, NoOptions, NoOverrides, "", NoResult)

\* Mutant of generate_loot: the level drawn for the first item is written
\* back into the catalog's attributes.
generate_loot_writing(options, overrides, key) ==
    \E result \in generate_loot_results(options, overrides) :
        /\ loot_list' = IF result.kind = "ok"
                        THEN Put(loot_list, key, result.items)
                        ELSE loot_list
        /\ last' = Call("generate_loot", options, overrides, key, result)
        /\ item_attributes' =
             [k \in DOMAIN item_attributes |->
                [i \in 1..Len(item_attributes[k]) |->
                   IF result.trace # <<>>
                   THEN set_initial_value(item_attributes[k][i],
                                          result.trace[1].generated_level)
                   ELSE item_attributes[k][i]]]
        /\ UNCHANGED <<quality_data, item_types, item_list, item_affixes,
                       subtype_metadata, item_name_metadata>>

\* PraedaGenerator::get_loot
get_loot(key) == IF Has(loot_list, key) THEN loot_list[key] ELSE <<>>

\* Mutant of generate_loot: the items are appended to those already stored
\* under the key.
generate_loot_appending(options, overrides, key) ==
    \E result \in generate_loot_results(options, overrides) :
        /\ loot_list' = IF result.kind = "ok"
                        THEN Put(loot_list, key,
                                 get_loot(key) \o result.items)
                        ELSE loot_list
        /\ last' = Call("generate_loot", options, overrides, key, result)
        /\ UNCHANGED catalog

\* Mutant of generate_loot: a failed call empties the entry of its key.
generate_loot_resetting(options, overrides, key) ==
    \E result \in generate_loot_results(options, overrides) :
        /\ loot_list' = Put(loot_list, key, result.items)
        /\ last' = Call("generate_loot", options, overrides, key, result)
        /\ UNCHANGED catalog

\* PraedaGenerator::generate_loot
generate_loot(options, overrides, key) ==
    \E result \in generate_loot_results(options, overrides) :
        /\ loot_list' = IF result.kind = "ok"
                        THEN Put(loot_list, key, result.items)
                        ELSE loot_list
        /\ last' = Call("generate_loot", options, overrides, key, result)
        /\ UNCHANGED catalog

(***************************************************************************)
(* generator.rs: load_data.  A TOML text is either one that               *)
(* toml::from_str rejects (kind "invalid") or the TomlConfig it parses to *)
(* (kind "config"): quality_data, item_types, and the lists               *)
(* item_attributes, item_list and item_affixes of models.rs.              *)
(***************************************************************************)
\* TomlItemAttributes
TomlItemAttributes(item_type, subtype, attributes) ==
    [item_type |-> item_type, subtype |-> subtype, attributes |-> attributes]

\* TomlItemList
TomlItemList(item_type, subtype, names, item_metadata) ==
    [item_type |-> item_type, subtype |-> subtype, names |-> names,
     item_metadata |-> item_metadata]

\* TomlItemAffixes
TomlItemAffixes(item_type, subtype, prefixes, suffixes, metadata) ==
    [item_type |-> item_type, subtype |-> subtype, prefixes |-> prefixes,
     suffixes |-> suffixes, metadata |-> metadata]

\* TomlConfig
TomlConfig(qualities, types, attributes, list, affixes) ==
    [kind |-> "config", quality_data |-> qualities, item_types |-> types,
     item_attributes |-> attributes, item_list |-> list,
     item_affixes |-> affixes]

\* A text that toml::from_str rejects.
InvalidToml == [kind |-> "invalid"]

\* load_data, "Load item attributes": one insert per entry, in order.
RECURSIVE load_item_attributes(_, _, _)
load_item_attributes(m, entries, i) ==
    IF i > Len(entries) THEN m
    ELSE load_item_attributes(
           Put(m, <<entries[i].item_type, entries[i].subtype>>,
               entries[i].attributes),
           entries, i + 1)

\* load_data, "Load item list": one insert per entry, in order.
RECURSIVE load_item_list(_, _, _)
load_item_list(m, entries, i) ==
    IF i > Len(entries) THEN m
    ELSE load_item_list(
           Put(m, <<entries[i].item_type, entries[i].subtype>>,
               entries[i].names),
           entries, i + 1)

\* set_item_name_metadata called for every (meta_key, meta_value) of every
\* item name of one entry: the pairs are added to the map stored for
\* (type, subtype, item_name).
merge_item_metadata(m, entry) ==
    LET names == {n \in DOMAIN entry.item_metadata :
                    DOMAIN entry.item_metadata[n] # {}}
        keys == {<<entry.item_type, entry.subtype, n>> : n \in names}
    IN  [k \in DOMAIN m \cup keys |->
           IF k \in keys
           THEN LET old == IF Has(m, k) THEN m[k] ELSE EmptyMap
                    new == entry.item_metadata[k[3]]
                IN  [x \in DOMAIN old \cup DOMAIN new |->
                       IF x \in DOMAIN new THEN new[x] ELSE old[x]]
           ELSE m[k]]

\* load_data, "Load per-item metadata if present", entry after entry.
RECURSIVE load_item_name_metadata(_, _, _)
load_item_name_metadata(m, entries, i) ==
    IF i > Len(entries) THEN m
    ELSE load_item_name_metadata(merge_item_metadata(m, entries[i]),
                                 entries, i + 1)

\* load_data, "Load item affixes": one insert per entry, in order.
RECURSIVE load_item_affixes(_, _, _)
load_item_affixes(m, entries, i) ==
    IF i > Len(entries) THEN m
    ELSE load_item_affixes(
           Put(m, <<entries[i].item_type, entries[i].subtype>>,
               <<entries[i].prefixes, entries[i].suffixes>>),
           entries, i + 1)

\* load_data, "Store metadata if present".
RECURSIVE load_subtype_metadata(_, _, _)
load_subtype_metadata(m, entries, i) ==
    IF i > Len(entries) THEN m
    ELSE load_subtype_metadata(
           IF DOMAIN entries[i].metadata # {}
           THEN Put(m, <<entries[i].item_type, entries[i].subtype>>,
                    entries[i].metadata)
           ELSE m,
           entries, i + 1)

\* What load_data returns and leaves in `last`.
LoadCall(kind) ==
    Call("load_data", NoOptions, NoOverrides, "", LootResult(kind, <<>>, <<>>))

\* Mutant of load_data: the quality data is cleared before the text is
\* parsed.
load_data_clearing(toml_data) ==
    IF toml_data.kind = "invalid"
    THEN /\ last' = LoadCall("err")
         /\ quality_data' = EmptyMap
         /\ UNCHANGED <<item_types, item_list, item_attributes, item_affixes,
                        subtype_metadata, item_name_metadata, loot_list>>
    ELSE /\ quality_data' = toml_data.quality_data
         /\ item_types' = toml_data.item_types
         /\ item_attributes' =
              load_item_attributes(item_attributes,
                                   toml_data.item_attributes, 1)
         /\ item_list' = load_item_list(item_list, toml_data.item_list, 1)
         /\ item_name_metadata' =
              load_item_name_metadata(item_name_metadata,
                                      toml_data.item_list, 1)
         /\ item_affixes' =
              load_item_affixes(item_affixes, toml_data.item_affixes, 1)
         /\ subtype_metadata' =
              load_subtype_metadata(subtype_metadata,
                                    toml_data.item_affixes, 1)
         /\ last' = LoadCall("ok")
         /\ UNCHANGED loot_list

\* Mutant of load_data: the attribute, name and affix maps are replaced by
\* the document's instead of merged by key.
load_data_replacing(toml_data) ==
    IF toml_data.kind = "invalid"
    THEN /\ last' = LoadCall("err")
         /\ UNCHANGED <<catalog, loot_list>>
    ELSE /\ quality_data' = toml_data.quality_data
         /\ item_types' = toml_data.item_types
         /\ item_attributes' =
              load_item_attributes(EmptyMap, toml_data.item_attributes, 1)
         /\ item_list' = load_item_list(EmptyMap, toml_data.item_list, 1)
         /\ item_name_metadata' =
              load_item_name_metadata(item_name_metadata,
                                      toml_data.item_list, 1)
         /\ item_affixes' =
              load_item_affixes(EmptyMap, toml_data.item_affixes, 1)
         /\ subtype_metadata' =
              load_subtype_metadata(subtype_metadata,
                                    toml_data.item_affixes, 1)
         /\ last' = LoadCall("ok")
         /\ UNCHANGED loot_list

\* PraedaGenerator::load_data
load_data(toml_data) ==
    IF toml_data.kind = "invalid"
    THEN /\ last' = LoadCall("err")
         /\ UNCHANGED <<catalog, loot_list>>
    ELSE /\ quality_data' = toml_data.quality_data
         /\ item_types' = toml_data.item_types
         /\ item_attributes' =
              load_item_attributes(item_attributes,
                                   toml_data.item_attributes, 1)
         /\ item_list' = load_item_list(item_list, toml_data.item_list, 1)
         /\ item_name_metadata' =
              load_item_name_metadata(item_name_metadata,
                                      toml_data.item_list, 1)
         /\ item_affixes' =
              load_item_affixes(item_affixes, toml_data.item_affixes, 1)
         /\ subtype_metadata' =
              load_subtype_metadata(subtype_metadata,
                                    toml_data.item_affixes, 1)
         /\ last' = LoadCall("ok")
         /\ UNCHANGED loot_list

(***************************************************************************)
(* Spec: a generator is configured through its taxonomy setters, starting  *)
(* from PraedaGenerator::new, and generate_loot is then called on it.      *)
(***************************************************************************)
Unselected == [kind |-> "none", value |-> ""]

NoSelect == [weights |-> EmptyMap, roll |-> 0, out |-> Unselected]

\* PraedaGenerator::new
Init ==
    /\ quality_data = EmptyMap
    /\ item_types = <<>>
    /\ item_list = EmptyMap
    /\ item_attributes = EmptyMap
    /\ item_affixes = EmptyMap
    /\ subtype_metadata = EmptyMap
    /\ item_name_metadata = EmptyMap
    /\ loot_list = EmptyMap
    /\ last = Setter("new")
    /\ sel = NoSelect

\* The run ends with the generate_loot call the claims are about.
Configuring == last.op # "generate_loot"

Called(op) ==
    /\ Configuring
    /\ last' = Setter(op)
    /\ UNCHANGED sel

Weights == 0..MaxWeight

SetQualityData ==
    \E weight \in Weights :
        set_quality_data("common", weight) /\ Called("set_quality_data")

SetItemType ==
    \E type_name \in {"armor", "weapon"}, weight \in Weights :
        set_item_type(type_name, weight) /\ Called("set_item_type")

SetItemSubtype ==
    \E type_name \in {"armor", "weapon"}, weight \in Weights :
        set_item_subtype(type_name, "sword", weight)
        /\ Called("set_item_subtype")

\* The GeneratorOptions and GeneratorOverrides handed to generate_loot:
\* level 1.0 +- 0.0 or 1.0 +- -1.0 (an empty range), affix_chance 0.5, linear scaling by 1.
LootOptions ==
    [number_of_items : 0..MaxItems, base_level : {2}, level_variance : {-2, 0},
     affix_chance : {1}, linear : {TRUE}, scaling_factor : {1}]

LootOverrides ==
    [quality_override : {"", "epic"}, type_override : {"", "weapon", "shield"},
     subtype_override : {"", "bow"}]

GenerateLoot ==
    \E options \in LootOptions, overrides \in LootOverrides :
        /\ Configuring
        /\ generate_loot(options, overrides, "k1")
        /\ UNCHANGED sel

Next ==
    \/ SetQualityData
    \/ SetItemType
    \/ SetItemSubtype
    \/ GenerateLoot

Spec == Init /\ [][Next]_vars

(***************************************************************************)
(* SpecSelect: weighted_random_select applied to a weight mapping.         *)
(***************************************************************************)
SelectKeys == {"axe", "bow", "sword"}

SelectWeights == {-1} \cup (0..MaxSelectWeight)

SelectMaps == UNION {[K -> SelectWeights] : K \in SUBSET SelectKeys}

InitSelect ==
    /\ quality_data = EmptyMap
    /\ item_types = <<>>
    /\ item_list = EmptyMap
    /\ item_attributes = EmptyMap
    /\ item_affixes = EmptyMap
    /\ subtype_metadata = EmptyMap
    /\ item_name_metadata = EmptyMap
    /\ loot_list = EmptyMap
    /\ last = Setter("new")
    /\ sel \in {[weights |-> w, roll |-> 0, out |-> Unselected] :
                  w \in SelectMaps}

\* One call that draws a roll.
SelectDrawn ==
    /\ sel.out = Unselected
    /\ DOMAIN sel.weights # {}
    /\ \E roll \in select_draws(sel.weights) :
         sel' = [sel EXCEPT !.roll = roll,
                            !.out = select_with_roll(sel.weights, roll)]
    /\ UNCHANGED <<catalog, loot_list, last>>

\* One call that ends before a roll is drawn (an empty mapping, or an
\* empty range of rolls).
SelectUndrawn ==
    /\ sel.out = Unselected
    /\ DOMAIN sel.weights = {} \/ select_draws(sel.weights) = {}
    /\ \E out \in weighted_random_select(sel.weights) :
         sel' = [sel EXCEPT !.out = out]
    /\ UNCHANGED <<catalog, loot_list, last>>

NextSelect == SelectDrawn \/ SelectUndrawn

SpecSelect == InitSelect /\ [][NextSelect]_vars

(***************************************************************************)
(* SpecItem: generate_loot applied once, for one item, to a configured     *)
(* catalog.  The catalog is one that the setters build: a taxonomy of one  *)
(* quality and one type with one subtype, a name list, metadata, and one   *)
(* attribute name configured at any of the four scopes of (weapon, sword)  *)
(* and in a prefix and a suffix of the global scope.                       *)
(***************************************************************************)
AttributeNames == {"damage", "level", "level_requirement"}

Placements == [1..4 -> {"none", "required", "optional"}]

\* set_attribute(type, subtype, ItemAttribute::new(name, i, 0, 0, required))
\* for each scope i that `placement` fills; the configured value is the
\* scope's position in the order of scope_keys.
AttributeCatalog(name, placement) ==
    LET keys == scope_keys("weapon", "sword")
    IN  [k \in {keys[i] : i \in {j \in 1..4 : placement[j] # "none"}} |->
           LET i == CHOOSE j \in 1..4 : keys[j] = k
           IN  <<ItemAttribute(name, i, 0, 0, placement[i] = "required")>>]

\* set_prefix_attribute("", "", "keen", ..) and set_suffix_attribute("", "",
\* "of_might", ..), each with one attribute of the given name; the suffix's
\* attribute has bounds of its own.
AffixCatalog(name, has_prefix, has_suffix) ==
    IF ~has_prefix /\ ~has_suffix THEN EmptyMap
    ELSE Put(EmptyMap, <<"", "">>,
             << IF has_prefix
                THEN <<Affix("keen", <<ItemAttribute(name, 10, 0, 0, FALSE)>>)>>
                ELSE <<>>,
                IF has_suffix
                THEN <<Affix("of_might",
                             <<ItemAttribute(name, 20, 5, 30, FALSE)>>)>>
                ELSE <<>> >>)

InitItem ==
    /\ quality_data = Put(EmptyMap, "common", 1)
    /\ item_types = <<ItemType("weapon", Put(EmptyMap, "sword", 1), 1)>>
    /\ item_list = Put(EmptyMap, <<"weapon", "sword">>, <<"excalibur">>)
    /\ subtype_metadata =
         Put(EmptyMap, <<"weapon", "sword">>, Put(EmptyMap, "rarity", "high"))
    /\ item_name_metadata =
         Put(EmptyMap, <<"weapon", "sword", "excalibur">>,
             Put(EmptyMap, "rarity", "unique"))
    /\ \E name \in AttributeNames, placement \in Placements,
          has_prefix \in BOOLEAN, has_suffix \in BOOLEAN :
         /\ item_attributes = AttributeCatalog(name, placement)
         /\ item_affixes = AffixCatalog(name, has_prefix, has_suffix)
    /\ loot_list = EmptyMap
    /\ last = Setter("new")
    /\ sel = NoSelect

\* One item; level 1.0 or 1.5, +- 1.0 or +- -1.0 (an empty range);
\* affix_chance 0.0, 0.5 or 1.0; linear or exponential scaling by 2.
ItemOptions ==
    [number_of_items : {1}, base_level : {2, 3}, level_variance : {-2, 2},
     affix_chance : {0, 1, 2}, linear : BOOLEAN, scaling_factor : {2}]

\* No override (a weapon / sword), or a type the catalog does not hold
\* (whose items have the empty subtype).
ItemOverrides ==
    {NoOverrides, [NoOverrides EXCEPT !.type_override = "shield"]}

GenerateOneItem ==
    \E options \in ItemOptions, overrides \in ItemOverrides :
        /\ Configuring
        /\ generate_loot(options, overrides, "k1")
        /\ UNCHANGED sel

NextItem == GenerateOneItem

SpecItem == InitItem /\ [][NextItem]_vars

(***************************************************************************)
(* SpecScale: ItemAttribute::generate_value applied to an attribute.  sel  *)
(* holds the attribute, the arguments and, once called, the attribute as   *)
(* generate_value leaves it.  Levels are whole and not negative, so that   *)
(* scaling_factor^level is a whole number.                                 *)
(***************************************************************************)
ScaleAttributes ==
    {ItemAttribute("damage", v, mn, mx, FALSE) :
       v \in {-3, 0, 2}, mn \in {0, 1}, mx \in {0, 5}}

ScaleFactors == {-2, 0, 1, 2}

InitScale ==
    /\ quality_data = EmptyMap
    /\ item_types = <<>>
    /\ item_list = EmptyMap
    /\ item_attributes = EmptyMap
    /\ item_affixes = EmptyMap
    /\ subtype_metadata = EmptyMap
    /\ item_name_metadata = EmptyMap
    /\ loot_list = EmptyMap
    /\ last = Setter("new")
    /\ sel \in {[attr |-> a, new_level |-> l, linear |-> b,
                  scaling_factor |-> f, called |-> FALSE, out |-> a] :
                  a \in ScaleAttributes, l \in 0..MaxLevel, b \in BOOLEAN,
                  f \in ScaleFactors}

\* attr.generate_value(new_level, linear, scaling_factor)
Scale ==
    /\ ~sel.called
    /\ sel' = [sel EXCEPT !.called = TRUE,
                          !.out = generate_value(sel.attr, sel.new_level,
                                                 sel.linear,
                                                 sel.scaling_factor)]
    /\ UNCHANGED <<catalog, loot_list, last>>

NextScale == Scale

SpecScale == InitScale /\ [][NextScale]_vars

(***************************************************************************)
(* SpecCatalog: a generator configured by its attribute, affix and name    *)
(* setters and by load_data, in any order, starting from                   *)
(* PraedaGenerator::new.                                                   *)
(***************************************************************************)
\* A table of qualities alone.
DocEmpty == TomlConfig(EmptyMap, <<>>, <<>>, <<>>, <<>>)

\* One quality, one type, and an entry of each list for (weapon, sword).
DocSword ==
    TomlConfig(
      Put(EmptyMap, "rare", 1),
      <<ItemType("armor", Put(EmptyMap, "shield", 1), 1)>>,
      <<TomlItemAttributes("weapon", "sword",
                           <<ItemAttribute("damage", 2, 0, 0, TRUE)>>)>>,
      <<TomlItemList("weapon", "sword", <<"excalibur">>,
                     Put(EmptyMap, "excalibur",
                         Put(EmptyMap, "rarity", "unique")))>>,
      <<TomlItemAffixes("weapon", "sword",
                        <<Affix("keen",
                                <<ItemAttribute("damage", 1, 0, 0, FALSE)>>)>>,
                        <<>>, Put(EmptyMap, "rarity", "high"))>>)

\* [[item_attributes.attributes]] and [[item_affixes.prefixes.attributes]]
\* tables that give the name "damage" twice, at the global scope.
DocDuplicates ==
    TomlConfig(
      Put(EmptyMap, "rare", 1), <<>>,
      <<TomlItemAttributes("", "",
                           <<ItemAttribute("damage", 1, 0, 0, TRUE),
                             ItemAttribute("damage", 2, 0, 0, TRUE)>>)>>,
      <<>>,
      <<TomlItemAffixes("", "",
                        <<Affix("keen",
                                <<ItemAttribute("damage", 1, 0, 0, FALSE),
                                  ItemAttribute("damage", 2, 0, 0, FALSE)>>)>>,
                        <<>>, EmptyMap)>>)

\* Two [[item_attributes]] tables for the same (type, subtype).
DocTwice ==
    TomlConfig(
      EmptyMap, <<>>,
      <<TomlItemAttributes("weapon", "sword",
                           <<ItemAttribute("damage", 1, 0, 0, TRUE)>>),
        TomlItemAttributes("weapon", "sword",
                           <<ItemAttribute("speed", 1, 0, 0, TRUE)>>)>>,
      <<>>, <<>>)

TomlDocuments == {InvalidToml, DocEmpty, DocSword, DocDuplicates, DocTwice}

\* PraedaGenerator::new, or a generator on which generate_loot has stored
\* the (empty) loot of a call for 0 items.
InitCatalog ==
    /\ quality_data = EmptyMap
    /\ item_types = <<>>
    /\ item_list = EmptyMap
    /\ item_attributes = EmptyMap
    /\ item_affixes = EmptyMap
    /\ subtype_metadata = EmptyMap
    /\ item_name_metadata = EmptyMap
    /\ loot_list \in {EmptyMap, Put(EmptyMap, "k1", <<>>)}
    /\ last = Setter("new")
    /\ sel = NoSelect

\* The scopes and names the setters of SpecCatalog are called with.
CatalogScopes == {<<"", "">>, <<"weapon", "sword">>}

CatalogAttributes ==
    {ItemAttribute(name, 1, 0, 0, TRUE) : name \in {"damage", "speed"}}

AffixAttributes ==
    {ItemAttribute("damage", v, 0, 0, FALSE) : v \in {1, 2}}

\* PraedaGenerator::set_prefix_attribute
set_prefix_attribute(type_name, subtype, affix_name, attribute) ==
    set_affix_attribute(type_name, subtype, TRUE, affix_name, attribute)

\* PraedaGenerator::set_suffix_attribute
set_suffix_attribute(type_name, subtype, affix_name, attribute) ==
    set_affix_attribute(type_name, subtype, FALSE, affix_name, attribute)

\* Accumulated values stay within MaxValue.
ValuesBounded(attributes) ==
    \A i \in 1..Len(attributes) : attributes[i].initial_value <= MaxValue

SetCommonQuality ==
    /\ set_quality_data("common", 1)
    /\ Called("set_quality_data")

SetAttribute ==
    \E scope \in CatalogScopes, attribute \in CatalogAttributes :
        /\ set_attribute(scope[1], scope[2], attribute)
        /\ ValuesBounded(item_attributes'[scope])
        /\ Called("set_attribute")

SetPrefixAttribute ==
    \E attribute \in AffixAttributes :
        /\ set_prefix_attribute("", "", "keen", attribute)
        /\ Called("set_prefix_attribute")

SetSuffixAttribute ==
    /\ set_suffix_attribute("", "", "of_might",
                            ItemAttribute("damage", 1, 0, 0, FALSE))
    /\ Called("set_suffix_attribute")

SetItem ==
    /\ set_item("weapon", "axe", <<"hatchet">>)
    /\ Called("set_item")

LoadData ==
    \E toml_data \in TomlDocuments :
        /\ Configuring
        /\ load_data(toml_data)
        /\ UNCHANGED sel

NextCatalog ==
    \/ SetCommonQuality
    \/ SetAttribute
    \/ SetPrefixAttribute
    \/ SetSuffixAttribute
    \/ SetItem
    \/ LoadData

SpecCatalog == InitCatalog /\ [][NextCatalog]_vars

(***************************************************************************)
(* SpecQuery: one existence query on a configured catalog.  The catalog   *)
(* is one the setters build: at most one quality, the types weapon and    *)
(* armor with at most one subtype each, and the attribute "damage" at any *)
(* of the four scopes of (weapon, sword).  `last` records the query, its  *)
(* arguments and what it returned.                                        *)
(***************************************************************************)
QueryCall(op, args, result) == [op |-> op, args |-> args, result |-> result]

QueryQualities == {"", "common", "rare"}

QueryTypes == {"", "weapon", "shield"}

QuerySubtypes == {"", "sword", "bow"}

QueryAttributes == {"", "damage", "speed"}

InitQuery ==
    /\ quality_data \in {EmptyMap, Put(EmptyMap, "common", 1)}
    /\ item_types \in
         { <<>>,
           <<ItemType("weapon", EmptyMap, 1)>>,
           <<ItemType("weapon", Put(EmptyMap, "sword", 1), 0)>>,
           <<ItemType("armor", Put(EmptyMap, "bow", 1), 1),
             ItemType("weapon", Put(EmptyMap, "sword", 1), 1)>> }
    /\ item_attributes \in
         { [k \in S |-> <<ItemAttribute("damage", 1, 0, 0, TRUE)>>] :
             S \in SUBSET {scope_keys("weapon", "sword")[i] : i \in 1..4} }
    /\ item_list = EmptyMap
    /\ item_affixes = EmptyMap
    /\ subtype_metadata = EmptyMap
    /\ item_name_metadata = EmptyMap
    /\ loot_list = EmptyMap
    /\ last = Setter("new")
    /\ sel = NoSelect

\* The query leaves the generator as it is (&self).
Queried(op, args, result) ==
    /\ last.op = "new"
    /\ last' = QueryCall(op, args, result)
    /\ UNCHANGED <<catalog, loot_list, sel>>

HasQuality ==
    \E quality \in QueryQualities :
        Queried("has_quality", <<quality>>, has_quality(quality))

HasItemType ==
    \E type_name \in QueryTypes :
        Queried("has_item_type", <<type_name>>, has_item_type(type_name))

HasItemSubtype ==
    \E type_name \in QueryTypes, subtype \in QuerySubtypes :
        Queried("has_item_subtype", <<type_name, subtype>>,
                has_item_subtype(type_name, subtype))

HasAttribute ==
    \E type_name \in QueryTypes, subtype \in QuerySubtypes,
       attr_name \in QueryAttributes :
        Queried("has_attribute", <<type_name, subtype, attr_name>>,
                has_attribute(type_name, subtype, attr_name))

NextQuery ==
    \/ HasQuality
    \/ HasItemType
    \/ HasItemSubtype
    \/ HasAttribute

SpecQuery == InitQuery /\ [][NextQuery]_vars

(***************************************************************************)
(* SpecName: generate_loot on a catalog of one quality and one type with  *)
(* one subtype, whose name lists are set (by set_item) for any of the     *)
(* scopes (,), (weapon,), (,sword), (weapon, sword) and (shield,).        *)
(***************************************************************************)
\* The list set_item gives each scope; (weapon, sword) may also be given
\* an empty list.
ScopeNames ==
    [k \in {<<"", "">>, <<"weapon", "">>, <<"", "sword">>,
            <<"weapon", "sword">>, <<"shield", "">>} |->
       IF k = <<"", "">> THEN {<<"thing">>}
       ELSE IF k = <<"weapon", "">> THEN {<<"arm">>}
       ELSE IF k = <<"", "sword">> THEN {<<"edge">>}
       ELSE IF k = <<"shield", "">> THEN {<<"buckler">>}
       ELSE {<<>>, <<"excalibur", "durendal">>}]

NameCatalogs ==
    UNION {[S -> UNION {ScopeNames[k] : k \in S}] : S \in SUBSET DOMAIN ScopeNames}

InitName ==
    /\ quality_data = Put(EmptyMap, "common", 1)
    /\ item_types = <<ItemType("weapon", Put(EmptyMap, "sword", 1), 1)>>
    /\ item_list \in {m \in NameCatalogs :
                        \A k \in DOMAIN m : m[k] \in ScopeNames[k]}
    /\ item_attributes = EmptyMap
    /\ item_affixes = EmptyMap
    /\ subtype_metadata = EmptyMap
    /\ item_name_metadata = EmptyMap
    /\ loot_list = EmptyMap
    /\ last = Setter("new")
    /\ sel = NoSelect

\* Level 1.0 +- 0.0, no affix.
NameOptions ==
    [number_of_items : 1..MaxItems, base_level : {2}, level_variance : {0},
     affix_chance : {0}, linear : {TRUE}, scaling_factor : {1}]

\* A weapon / sword, a weapon / bow, or a shield with the empty subtype.
NameOverrides ==
    {NoOverrides, [NoOverrides EXCEPT !.subtype_override = "bow"],
     [NoOverrides EXCEPT !.type_override = "shield"]}

GenerateNamed ==
    \E options \in NameOptions, overrides \in NameOverrides :
        /\ Configuring
        /\ generate_loot(options, overrides, "k1")
        /\ UNCHANGED sel

NextName == GenerateNamed

SpecName == InitName /\ [][NextName]_vars

(***************************************************************************)
(* SpecAffix: generate_loot on a catalog of one quality and one type with *)
(* one subtype, whose affixes are set (by set_prefix_attribute and        *)
(* set_suffix_attribute) at the scopes (,), (weapon,) and (weapon, sword):*)
(* the prefix "keen" at any of the three, the prefix "sharp" at the last, *)
(* the suffix "of_might" at the first.                                    *)
(***************************************************************************)
Keen == Affix("keen", <<ItemAttribute("damage", 1, 0, 0, FALSE)>>)

Sharp == Affix("sharp", <<ItemAttribute("damage", 2, 0, 0, FALSE)>>)

OfMight == Affix("of_might", <<ItemAttribute("speed", 1, 0, 0, FALSE)>>)

\* The (prefixes, suffixes) pairs a scope can hold.
ScopeAffixes ==
    [k \in {<<"", "">>, <<"weapon", "">>, <<"weapon", "sword">>} |->
       IF k = <<"", "">>
       THEN {<< <<Keen>>, <<>> >>, << <<>>, <<OfMight>> >>,
             << <<Keen>>, <<OfMight>> >>}
       ELSE IF k = <<"weapon", "">> THEN {<< <<Keen>>, <<>> >>}
       ELSE {<< <<Keen>>, <<>> >>, << <<Keen, Sharp>>, <<>> >>}]

AffixCatalogs ==
    UNION {[S -> UNION {ScopeAffixes[k] : k \in S}] :
             S \in SUBSET DOMAIN ScopeAffixes}

InitAffix ==
    /\ quality_data = Put(EmptyMap, "common", 1)
    /\ item_types = <<ItemType("weapon", Put(EmptyMap, "sword", 1), 1)>>
    /\ item_list = EmptyMap
    /\ item_attributes = EmptyMap
    /\ item_affixes \in {m \in AffixCatalogs :
                           \A k \in DOMAIN m : m[k] \in ScopeAffixes[k]}
    /\ subtype_metadata = EmptyMap
    /\ item_name_metadata = EmptyMap
    /\ loot_list = EmptyMap
    /\ last = Setter("new")
    /\ sel = NoSelect

\* One item of level 1.0; affix_chance 0.0, 0.5 or 1.0.
AffixOptions ==
    [number_of_items : {1}, base_level : {2}, level_variance : {0},
     affix_chance : {0, 1, 2}, linear : {TRUE}, scaling_factor : {1}]

GenerateAffixed ==
    \E options \in AffixOptions, overrides \in ItemOverrides :
        /\ Configuring
        /\ generate_loot(options, overrides, "k1")
        /\ UNCHANGED sel

NextAffix == GenerateAffixed

SpecAffix == InitAffix /\ [][NextAffix]_vars

\* ---------------------------------------------------------------------
\* SpecMeta: catalogs that differ in their metadata, then one
\* generate_loot call.
\* ---------------------------------------------------------------------

\* The metadata a catalog may hold per (type, subtype).
SubtypeTags ==
    [k \in {<<"", "">>, <<"weapon", "">>, <<"shield", "">>,
            <<"weapon", "sword">>} |->
       IF k = <<"", "">> THEN {Put(EmptyMap, "cursed", "yes")}
       ELSE IF k = <<"weapon", "">> THEN {Put(EmptyMap, "class", "melee")}
       ELSE IF k = <<"shield", "">> THEN {Put(EmptyMap, "slot", "offhand")}
       ELSE {Put(EmptyMap, "rarity", "high"),
             Put(Put(EmptyMap, "rarity", "high"), "origin", "forge")}]

\* The metadata a catalog may hold per (type, subtype, item name).
NameTags ==
    [k \in {<<"", "", "excalibur">>, <<"weapon", "", "excalibur">>,
            <<"weapon", "sword", "durendal">>,
            <<"weapon", "sword", "excalibur">>} |->
       IF k = <<"weapon", "sword", "excalibur">>
       THEN {Put(EmptyMap, "rarity", "unique"),
             Put(Put(EmptyMap, "rarity", "unique"), "lore", "lake")}
       ELSE IF k = <<"weapon", "sword", "durendal">>
       THEN {Put(EmptyMap, "lore", "roland")}
       ELSE {Put(EmptyMap, "stray", "yes")}]

SubtypeTagCatalogs ==
    UNION {[S -> UNION {SubtypeTags[k] : k \in S}] :
             S \in SUBSET DOMAIN SubtypeTags}

NameTagCatalogs ==
    UNION {[S -> UNION {NameTags[k] : k \in S}] :
             S \in SUBSET DOMAIN NameTags}

InitMeta ==
    /\ quality_data = Put(EmptyMap, "common", 1)
    /\ item_types = <<ItemType("weapon", Put(EmptyMap, "sword", 1), 1)>>
    /\ item_list =
         Put(EmptyMap, <<"weapon", "sword">>, <<"excalibur", "durendal">>)
    /\ item_attributes = EmptyMap
    /\ item_affixes = EmptyMap
    /\ subtype_metadata \in {m \in SubtypeTagCatalogs :
                               \A k \in DOMAIN m : m[k] \in SubtypeTags[k]}
    /\ item_name_metadata \in {m \in NameTagCatalogs :
                                 \A k \in DOMAIN m : m[k] \in NameTags[k]}
    /\ loot_list = EmptyMap
    /\ last = Setter("new")
    /\ sel = NoSelect

\* A weapon / sword, or a shield with the empty subtype and the empty name.
GenerateTagged ==
    \E options \in NameOptions :
       \E overrides \in {NoOverrides,
                         [NoOverrides EXCEPT !.type_override = "shield"]} :
        /\ Configuring
        /\ generate_loot(options, overrides, "k1")
        /\ UNCHANGED sel

NextMeta == GenerateTagged

SpecMeta == InitMeta /\ [][NextMeta]_vars

\* ---------------------------------------------------------------------
\* SpecLoot: any sequence of generate_loot calls under several keys, on a
\* catalog where a call may fail at any item (the type armor has no
\* subtype to select).  Here `sel` is a history variable: for each key, the
\* items returned by the most recent successful call made with that key and
\* the number_of_items that call asked for.
\* ---------------------------------------------------------------------
LootKeys == {"k1", "k2"}

InitLoot ==
    /\ quality_data = Put(EmptyMap, "common", 1)
    /\ item_types = <<ItemType("weapon", Put(EmptyMap, "sword", 1), 1),
                      ItemType("armor", EmptyMap, 1)>>
    /\ item_list =
         Put(EmptyMap, <<"weapon", "sword">>, <<"excalibur", "durendal">>)
    /\ item_attributes = EmptyMap
    /\ item_affixes = EmptyMap
    /\ subtype_metadata = EmptyMap
    /\ item_name_metadata = EmptyMap
    /\ loot_list = EmptyMap
    /\ last = Setter("new")
    /\ sel = EmptyMap

\* 0..MaxItems items; level 1.0 +- 0.0, no affix.
KeyedOptions ==
    [number_of_items : 0..MaxItems, base_level : {2}, level_variance : {0},
     affix_chance : {0}, linear : {TRUE}, scaling_factor : {1}]

GenerateKeyed ==
    \E options \in KeyedOptions, key \in LootKeys :
        /\ generate_loot(options, NoOverrides, key)
        /\ sel' = IF last'.result.kind = "ok"
                  THEN Put(sel, key,
                           [items |-> last'.result.items,
                            number_of_items |-> options.number_of_items])
                  ELSE sel

NextLoot == GenerateKeyed

SpecLoot == InitLoot /\ [][NextLoot]_vars

(***************************************************************************)
(* ffi.rs: the C boundary.  A pointer is Null or the name of what it       *)
(* points to: "generator" for the PraedaGeneratorHandle praeda_generator_  *)
(* new returned, "array" for the CItemArrayHandle the last successful      *)
(* praeda_generator_generate_loot returned, "error" for the string last     *)
(* written through error_out, "version" for the string of praeda_version.   *)
(* A `*const c_char` argument is Null, a string that is valid UTF-8, or     *)
(* bytes that are not.  In SpecFfi `sel` is the heap behind these pointers *)
(* together with the record of the last call made: its function, the       *)
(* handle or pointer passed, and the value returned.  Valid pointers are    *)
(* passed only while what they point to is live.                           *)
(***************************************************************************)
Null == "null"

NullStr == [kind |-> "null", text |-> ""]
Utf8(text) == [kind |-> "utf8", text |-> text]
NotUtf8 == [kind |-> "bytes", text |-> ""]

\* handle.is_null() || s.is_null(), then CStr::to_str failing, for the
\* strings `strs` of one call.
BadArguments(handle, strs) ==
    \/ handle = Null
    \/ \E i \in 1..Len(strs) : strs[i].kind # "utf8"

FfiCall(op, handle, ret) == [op |-> op, handle |-> handle, ret |-> ret]

FfiHeap(generator, array, error, version, call) ==
    [generator |-> generator, array |-> array, error |-> error,
     version |-> version, call |-> call]

\* CItemArrayHandle: not allocated yet, live with its items, or freed.
NoArray == [state |-> "none", items |-> <<>>]
LiveArray(items) == [state |-> "live", items |-> items]
FreedArray == [state |-> "freed", items |-> <<>>]

\* The call returns `ret` and does nothing else.
Returns(op, handle, ret) ==
    /\ sel' = [sel EXCEPT !.call = FfiCall(op, handle, ret)]
    /\ UNCHANGED <<catalog, loot_list, last>>

\* The call returns `ret` after writing `message` through error_out when
\* error_out is not null.
Fails(op, handle, ret, error_out, message) ==
    /\ sel' = [sel EXCEPT !.call = FfiCall(op, handle, ret),
                          !.error = IF error_out # Null THEN message ELSE @]
    /\ UNCHANGED <<catalog, loot_list, last>>

\* The call returned 0 after calling the generator method `method`.
Succeeds(op, handle, method) ==
    /\ sel' = [sel EXCEPT !.call = FfiCall(op, handle, 0)]
    /\ last' = Setter(method)

praeda_generator_free(handle) ==
    /\ sel' = [sel EXCEPT
                 !.call = FfiCall("praeda_generator_free", handle, Null),
                 !.generator = IF handle # Null THEN "freed" ELSE @]
    /\ UNCHANGED <<catalog, loot_list, last>>

praeda_string_free(ptr) ==
    /\ sel' = [sel EXCEPT
                 !.call = FfiCall("praeda_string_free", ptr, Null),
                 !.version = IF ptr # Null THEN "freed" ELSE @]
    /\ UNCHANGED <<catalog, loot_list, last>>

praeda_error_free(ptr) ==
    /\ sel' = [sel EXCEPT
                 !.call = FfiCall("praeda_error_free", ptr, Null),
                 !.error = IF ptr # Null THEN "" ELSE @]
    /\ UNCHANGED <<catalog, loot_list, last>>

praeda_item_array_free(handle) ==
    /\ sel' = [sel EXCEPT
                 !.call = FfiCall("praeda_item_array_free", handle, Null),
                 !.array = IF handle # Null THEN FreedArray ELSE @]
    /\ UNCHANGED <<catalog, loot_list, last>>

praeda_generator_load_toml(handle, toml_str, error_out) ==
    LET op == "praeda_generator_load_toml"
    IN  IF handle = Null \/ toml_str.kind = "null"
        THEN Fails(op, handle, -1, error_out, "Invalid handle or TOML string")
        ELSE IF toml_str.kind # "utf8"
        THEN Fails(op, handle, -1, error_out, "Invalid UTF-8 in TOML string")
        ELSE /\ load_data(toml_str.text)
             /\ sel' = [sel EXCEPT
                          !.call = FfiCall(op, handle,
                                           IF last'.result.kind = "ok"
                                           THEN 0 ELSE -1),
                          !.error = IF last'.result.kind # "ok"
                                       /\ error_out # Null
                                    THEN "Failed to load TOML" ELSE @]

praeda_generator_set_quality_data(handle, quality_name, weight) ==
    LET op == "praeda_generator_set_quality_data"
    IN  IF BadArguments(handle, <<quality_name>>)
        THEN Returns(op, handle, -1)
        ELSE /\ set_quality_data(quality_name.text, weight)
             /\ Succeeds(op, handle, "set_quality_data")

praeda_generator_set_item_type(handle, type_name, weight) ==
    LET op == "praeda_generator_set_item_type"
    IN  IF BadArguments(handle, <<type_name>>)
        THEN Returns(op, handle, -1)
        ELSE /\ set_item_type(type_name.text, weight)
             /\ Succeeds(op, handle, "set_item_type")

praeda_generator_set_item_subtype(handle, type_name, subtype_name, weight) ==
    LET op == "praeda_generator_set_item_subtype"
    IN  IF BadArguments(handle, <<type_name, subtype_name>>)
        THEN Returns(op, handle, -1)
        ELSE /\ set_item_subtype(type_name.text, subtype_name.text, weight)
             /\ Succeeds(op, handle, "set_item_subtype")

praeda_generator_set_attribute(handle, type_name, subtype_name, attr_name, initial_value, min_value, max_value, required) ==
    LET op == "praeda_generator_set_attribute"
    IN  IF BadArguments(handle, <<type_name, subtype_name, attr_name>>)
        THEN Returns(op, handle, -1)
        ELSE /\ set_attribute(type_name.text, subtype_name.text,
                              ItemAttribute(attr_name.text, initial_value,
                                            min_value, max_value,
                                            required # 0))
             /\ Succeeds(op, handle, "set_attribute")

\* `names` is null or points to an array of names_count string pointers.
NullNames == [kind |-> "null", strs |-> <<>>]
Names(strs) == [kind |-> "array", strs |-> strs]

praeda_generator_set_item_names(handle, type_name, subtype_name, names) ==
    LET op == "praeda_generator_set_item_names"
    IN  IF BadArguments(handle, <<type_name, subtype_name>>)
             \/ names.kind = "null"
        THEN Returns(op, handle, -1)
        ELSE IF BadArguments(handle, names.strs)
        THEN Returns(op, handle, -1)
        ELSE /\ set_item(type_name.text, subtype_name.text,
                         [i \in 1..Len(names.strs) |-> names.strs[i].text])
             /\ Succeeds(op, handle, "set_item")

praeda_generator_set_prefix_attribute(handle, type_name, subtype_name, affix_name, attr_name, initial_value, min_value, max_value, required) ==
    LET op == "praeda_generator_set_prefix_attribute"
    IN  IF BadArguments(handle, <<type_name, subtype_name, affix_name,
                                  attr_name>>)
        THEN Returns(op, handle, -1)
        ELSE /\ set_affix_attribute(type_name.text, subtype_name.text, TRUE,
                                    affix_name.text,
                                    ItemAttribute(attr_name.text,
                                                  initial_value, min_value,
                                                  max_value, required # 0))
             /\ Succeeds(op, handle, "set_prefix_attribute")

praeda_generator_set_suffix_attribute(handle, type_name, subtype_name, affix_name, attr_name, initial_value, min_value, max_value, required) ==
    LET op == "praeda_generator_set_suffix_attribute"
    IN  IF BadArguments(handle, <<type_name, subtype_name, affix_name,
                                  attr_name>>)
        THEN Returns(op, handle, -1)
        ELSE /\ set_affix_attribute(type_name.text, subtype_name.text, FALSE,
                                    affix_name.text,
                                    ItemAttribute(attr_name.text,
                                                  initial_value, min_value,
                                                  max_value, required # 0))
             /\ Succeeds(op, handle, "set_suffix_attribute")

praeda_generator_generate_loot(handle, number_of_items, base_level, level_variance, affix_chance, linear, scaling_factor, error_out) ==
    LET op == "praeda_generator_generate_loot"
        options == [number_of_items |-> number_of_items,
                    base_level |-> base_level,
                    level_variance |-> level_variance,
                    affix_chance |-> affix_chance, linear |-> linear # 0,
                    scaling_factor |-> scaling_factor]
    IN  IF handle = Null
        THEN Fails(op, handle, Null, error_out, "Invalid handle")
        ELSE /\ generate_loot(options, NoOverrides, "ffi")
             /\ sel' = IF last'.result.kind = "ok"
                       THEN [sel EXCEPT
                               !.call = FfiCall(op, handle, "array"),
                               !.array = LiveArray(last'.result.items)]
                       ELSE [sel EXCEPT
                               !.call = FfiCall(op, handle, Null),
                               !.error = IF error_out # Null
                                         THEN "Failed to generate loot"
                                         ELSE @]

\* The `*const CItem` returned: Null or the item it points to.
praeda_item_array_get(handle, index) ==
    Returns("praeda_item_array_get", <<handle, index>>,
            IF handle = Null THEN Null
            ELSE IF index >= Len(sel.array.items) \/ sel.array.items = <<>>
            THEN Null
            ELSE sel.array.items[index + 1])

praeda_item_array_count(handle) ==
    Returns("praeda_item_array_count", handle,
            IF handle = Null THEN 0 ELSE Len(sel.array.items))

\* Mutant of praeda_generator_has_quality: a null handle is answered as an
\* unknown quality.
praeda_generator_has_quality_unknown(handle, quality) ==
    Returns("praeda_generator_has_quality", handle,
            IF handle = Null THEN 0
            ELSE IF quality.kind # "utf8" THEN -1
            ELSE IF has_quality(quality.text) THEN 1 ELSE 0)

praeda_generator_has_quality(handle, quality) ==
    Returns("praeda_generator_has_quality", handle,
            IF BadArguments(handle, <<quality>>) THEN -1
            ELSE IF has_quality(quality.text) THEN 1 ELSE 0)

praeda_version ==
    /\ sel' = [sel EXCEPT !.call = FfiCall("praeda_version", Null, "version"),
                          !.version = "live"]
    /\ UNCHANGED <<catalog, loot_list, last>>

\* ---------------------------------------------------------------------
\* SpecFfi: a C caller holding the handle of praeda_generator_new.  Its
\* calls that reach a generator method come in the order of CallerOrder;
\* calls with a null handle or a bad string argument, the array and query
\* functions and the free functions come at any point.
\* ---------------------------------------------------------------------
InitFfi ==
    /\ quality_data = EmptyMap
    /\ item_types = <<>>
    /\ item_list = EmptyMap
    /\ item_attributes = EmptyMap
    /\ item_affixes = EmptyMap
    /\ subtype_metadata = EmptyMap
    /\ item_name_metadata = EmptyMap
    /\ loot_list = EmptyMap
    /\ last = Setter("new")
    /\ sel = FfiHeap("live", NoArray, "", "none",
                     FfiCall("praeda_generator_new", Null, "generator"))

\* <<m1, m2>>: the caller calls the generator method m2 after m1.
CallerOrder ==
    {<<"new", "set_quality_data">>, <<"set_quality_data", "set_item_type">>,
     <<"set_item_type", "set_item_subtype">>,
     <<"set_item_subtype", "set_item">>, <<"set_item", "set_attribute">>,
     <<"set_attribute", "set_prefix_attribute">>,
     <<"set_prefix_attribute", "set_suffix_attribute">>,
     <<"set_suffix_attribute", "generate_loot">>,
     <<"generate_loot", "generate_loot">>, <<"generate_loot", "load_data">>,
     <<"load_data", "generate_loot">>}

\* The call returns before any generator method, or `method` is due.
InOrder(handle, strs, method) ==
    BadArguments(handle, strs) \/ <<last.op, method>> \in CallerOrder

\* Null, or the generator's handle while the generator is live.
GeneratorHandles ==
    {Null} \cup (IF sel.generator = "live" THEN {"generator"} ELSE {})

ArrayHandles ==
    {Null} \cup (IF sel.array.state = "live" THEN {"array"} ELSE {})

ErrorPointers == {Null} \cup (IF sel.error # "" THEN {"error"} ELSE {})

VersionPointers ==
    {Null} \cup (IF sel.version = "live" THEN {"version"} ELSE {})

\* error_out: null, or the address of the caller's error pointer.
ErrorOuts == {Null, "error_out"}

CStrings(texts) == {NullStr, NotUtf8} \cup {Utf8(t) : t \in texts}

GeneratorFree ==
    \E handle \in GeneratorHandles : praeda_generator_free(handle)

StringFree == \E ptr \in VersionPointers : praeda_string_free(ptr)

ErrorFree == \E ptr \in ErrorPointers : praeda_error_free(ptr)

ItemArrayFree == \E handle \in ArrayHandles : praeda_item_array_free(handle)

LoadToml ==
    \E handle \in GeneratorHandles, error_out \in ErrorOuts :
       \E toml_str \in CStrings({InvalidToml, DocEmpty}) :
          /\ InOrder(handle, <<toml_str>>, "load_data")
          /\ praeda_generator_load_toml(handle, toml_str, error_out)

FfiSetQualityData ==
    \E handle \in GeneratorHandles, quality_name \in CStrings({"common"}) :
        /\ InOrder(handle, <<quality_name>>, "set_quality_data")
        /\ praeda_generator_set_quality_data(handle, quality_name, 1)

FfiSetItemType ==
    \E handle \in GeneratorHandles, type_name \in CStrings({"weapon"}) :
        /\ InOrder(handle, <<type_name>>, "set_item_type")
        /\ praeda_generator_set_item_type(handle, type_name, 1)

FfiSetItemSubtype ==
    \E handle \in GeneratorHandles, subtype_name \in CStrings({"sword"}) :
        /\ InOrder(handle, <<subtype_name>>, "set_item_subtype")
        /\ praeda_generator_set_item_subtype(handle, Utf8("weapon"),
                                             subtype_name, 1)

FfiSetItemNames ==
    \E handle \in GeneratorHandles :
       \E names \in {NullNames, Names(<<Utf8("excalibur")>>),
                     Names(<<Utf8("excalibur"), NullStr>>)} :
          /\ InOrder(handle, IF names.kind = "null" THEN <<NullStr>>
                             ELSE names.strs, "set_item")
          /\ praeda_generator_set_item_names(handle, Utf8("weapon"),
                                             Utf8("sword"), names)

FfiSetAttribute ==
    \E handle \in GeneratorHandles, attr_name \in CStrings({"damage"}) :
        /\ InOrder(handle, <<attr_name>>, "set_attribute")
        /\ praeda_generator_set_attribute(handle, Utf8(""), Utf8(""),
                                          attr_name, 1, 0, 0, 1)

FfiSetPrefixAttribute ==
    \E handle \in GeneratorHandles, affix_name \in CStrings({"keen"}) :
        /\ InOrder(handle, <<affix_name>>, "set_prefix_attribute")
        /\ praeda_generator_set_prefix_attribute(handle, Utf8(""), Utf8(""),
                                                 affix_name, Utf8("damage"),
                                                 1, 0, 0, 0)

FfiSetSuffixAttribute ==
    \E handle \in GeneratorHandles, affix_name \in CStrings({"of_might"}) :
        /\ InOrder(handle, <<affix_name>>, "set_suffix_attribute")
        /\ praeda_generator_set_suffix_attribute(handle, Utf8(""), Utf8(""),
                                                 affix_name, Utf8("damage"),
                                                 1, 0, 0, 0)

\* No item or one; level 1.0 +- 0.0, affix_chance 1.0, linear scaling by
\* 1.0.
FfiGenerateLoot ==
    \E handle \in GeneratorHandles, error_out \in ErrorOuts :
       \E number_of_items \in {0, 1} :
          /\ InOrder(handle, <<>>, "generate_loot")
          /\ praeda_generator_generate_loot(handle, number_of_items, 2, 0, 2,
                                            1, 2, error_out)

ItemArrayGet ==
    \E handle \in ArrayHandles, index \in {0, 1} :
        praeda_item_array_get(handle, index)

ItemArrayCount ==
    \E handle \in ArrayHandles : praeda_item_array_count(handle)

FfiHasQuality ==
    \E handle \in GeneratorHandles, quality \in CStrings({"common"}) :
        praeda_generator_has_quality(handle, quality)

Version == sel.version = "none" /\ praeda_version

NextFfi ==
    \/ GeneratorFree
    \/ StringFree
    \/ ErrorFree
    \/ ItemArrayFree
    \/ LoadToml
    \/ FfiSetQualityData
    \/ FfiSetItemType
    \/ FfiSetItemSubtype
    \/ FfiSetAttribute
    \/ FfiSetItemNames
    \/ FfiSetPrefixAttribute
    \/ FfiSetSuffixAttribute
    \/ FfiGenerateLoot
    \/ ItemArrayGet
    \/ ItemArrayCount
    \/ FfiHasQuality
    \/ Version

SpecFfi == InitFfi /\ [][NextFfi]_vars

\* ---------------------------------------------------------------------
\* SpecTypes: any sequence of set_item_type and set_item_subtype calls on
\* a new generator.
\* ---------------------------------------------------------------------
TypeNames == {"armor", "weapon"}

SubtypeNames == {"bow", "sword"}

SetType ==
    \E type_name \in TypeNames, weight \in Weights :
        set_item_type(type_name, weight) /\ Called("set_item_type")

SetSubtype ==
    \E type_name \in TypeNames, subtype \in SubtypeNames, weight \in Weights :
        set_item_subtype(type_name, subtype, weight)
        /\ Called("set_item_subtype")

NextTypes == SetType \/ SetSubtype

SpecTypes == Init /\ [][NextTypes]_vars

\* ---------------------------------------------------------------------
\* SpecSetAffix: any sequence of set_prefix_attribute and
\* set_suffix_attribute calls on a new generator.
\* ---------------------------------------------------------------------
PrefixAttributes ==
    {ItemAttribute("damage", 1, 0, 0, FALSE),
     ItemAttribute("damage", 2, 0, 0, FALSE),
     ItemAttribute("speed", 1, 0, 0, FALSE)}

\* The prefixes keen and sharp of the global scope; the prefix keen of
\* (weapon, sword).
SetPrefix ==
    \/ \E affix_name \in {"keen", "sharp"}, attribute \in PrefixAttributes :
          /\ set_prefix_attribute("", "", affix_name, attribute)
          /\ Called("set_prefix_attribute")
    \/ /\ set_prefix_attribute("weapon", "sword", "keen",
                               ItemAttribute("damage", 1, 0, 0, FALSE))
       /\ Called("set_prefix_attribute")

\* The suffix keen of the global scope.
SetSuffix ==
    /\ set_suffix_attribute("", "", "keen",
                            ItemAttribute("speed", 1, 0, 0, FALSE))
    /\ Called("set_suffix_attribute")

NextSetAffix == SetPrefix \/ SetSuffix

SpecSetAffix == Init /\ [][NextSetAffix]_vars

(***************************************************************************)
(* Claims.                                                                 *)
(***************************************************************************)
Generated == last.op = "generate_loot"

\* C1: generate_loot is all-or-nothing.  If any generate_item call of the
\* loop returns an error, the call returns an error and no items; a call
\* that does not return Ok returns no items and stores none; a call that
\* returns Ok returns exactly number_of_items items.
C1_AllOrNothing ==
    Generated =>
      LET r == last.result
      IN  /\ (\E i \in 1..Len(r.trace) : r.trace[i].kind = "err")
                => (r.kind = "err" /\ r.items = <<>>)
          /\ r.kind # "ok" => (r.items = <<>> /\ ~Has(loot_list, last.key))
          /\ r.kind = "ok" => Len(r.items) = last.options.number_of_items

\* C1 witness: the first item was generated and the second one failed.
C1_Witness ==
    /\ Generated
    /\ last.result.kind = "err"
    /\ Len(last.result.trace) = 2
    /\ last.result.trace[1].kind = "ok"
    /\ last.result.items = <<>>

\* C2: every returned item carries each non-empty override, whether or not
\* the value is configured.
C2_OverridesAbsolute ==
    Generated =>
      \A i \in 1..Len(last.result.items) :
        LET item == last.result.items[i]
            o == last.overrides
        IN  /\ o.quality_override # "" => item.quality = o.quality_override
            /\ o.type_override # "" => item.item_type = o.type_override
            /\ o.subtype_override # "" => item.subtype = o.subtype_override

\* C2 witness: two items forced to a quality, a type and a subtype that
\* the configured (non-empty) catalog does not hold.
C2_Witness ==
    /\ Generated
    /\ Len(last.result.items) = 2
    /\ last.overrides = [quality_override |-> "epic",
                         type_override |-> "shield",
                         subtype_override |-> "bow"]
    /\ Has(quality_data, "common") /\ quality_data["common"] > 0
    /\ Len(item_types) = 2

EmptyOverrides == last.overrides = NoOverrides

ConsultedTypes ==
    IF last.overrides.type_override # ""
    THEN {i \in 1..Len(item_types) :
            i = TypePosition(item_types, last.overrides.type_override)}
    ELSE 1..Len(item_types)

\* Every mapping consulted without an override is non-empty.
ConsultedNonEmpty ==
    /\ last.overrides.quality_override = "" => DOMAIN quality_data # {}
    /\ last.overrides.type_override = "" => item_types # <<>>
    /\ last.overrides.subtype_override = ""
         => \A i \in ConsultedTypes : DOMAIN item_types[i].subtypes # {}

\* C6 as claimed: when every mapping consulted without an override is
\* non-empty, generate_loot completes and returns its items.
C6_OnlySelectorFailure ==
    (Generated /\ ConsultedNonEmpty) => last.result.kind = "ok"

WeightBefore(weights, k) ==
    SumWeights(weights, {j \in DOMAIN weights : Rank(j) < Rank(k)})

SelectInputValid ==
    /\ DOMAIN sel.weights # {}
    /\ \A k \in DOMAIN sel.weights : sel.weights[k] >= 0
    /\ total_weight(sel.weights) > 0

\* C4: for a non-empty mapping of non-negative weights with total > 0 the
\* selector returns, for the roll drawn, the key whose interval
\* [weight before k, weight before k + weight of k) holds the roll; so the
\* fall-through error is not returned, the returned key has a positive
\* weight, exactly weight-of-k rolls select k, and a single positive entry
\* is always the one returned.
C4_IntervalRule ==
    (sel.out # Unselected /\ SelectInputValid) =>
      LET w == sel.weights
          k == sel.out.value
      IN  /\ sel.out.kind = "ok"
          /\ k \in DOMAIN w
          /\ WeightBefore(w, k) <= sel.roll
          /\ sel.roll < WeightBefore(w, k) + w[k]
          /\ w[k] > 0
          /\ \A j \in DOMAIN w :
               Cardinality({d \in 0..(total_weight(w) - 1) :
                              select_with_roll(w, d) = Ok(j)}) = w[j]
          /\ \A j \in DOMAIN w :
               (\A i \in DOMAIN w \ {j} : w[i] = 0) => k = j

\* C4 witness: three keys, the first of weight 0, and a roll that selects
\* the last one.
C4_Witness ==
    /\ sel.out = Ok("sword")
    /\ DOMAIN sel.weights = SelectKeys
    /\ sel.weights["axe"] = 0
    /\ sel.weights["bow"] = 2
    /\ sel.roll = 2

\* C3: a generate_loot call, whether it succeeds or fails, leaves every
\* part of the catalog as it was; only the stored loot (and the record of
\* the call) may change.
C3_CatalogUnchanged ==
    [][last'.op = "generate_loot" => catalog' = catalog]_vars

\* C3 witness: a call that returned an item from a catalog holding
\* attributes and affixes, and stored it.
C3_Witness ==
    /\ Generated
    /\ last.result.kind = "ok"
    /\ Cardinality(DOMAIN item_attributes) = 4
    /\ DOMAIN item_affixes # {}
    /\ Has(loot_list, "k1") /\ loot_list["k1"] = last.result.items

\* C8: in every generated item, each attribute whose name contains
\* `_requirement` has initial_value equal to the level generated for the
\* item, at the end of required-attribute processing and in the item
\* returned.
C8_RequirementIsLevel ==
    Generated =>
      \A i \in 1..Len(last.result.items) :
        LET t == last.result.trace[i]
            attrs == last.result.items[i].attributes
        IN  /\ \A n \in DOMAIN t.after_required :
                 contains_requirement(n)
                   => t.after_required[n].initial_value = t.generated_level
            /\ \A n \in DOMAIN attrs :
                 contains_requirement(n)
                   => attrs[n].initial_value = t.generated_level

\* C8 witness: a `_requirement` attribute required at a scope, carried by
\* the chosen prefix and suffix too, on an item of level 2.
C8_Witness ==
    /\ Generated
    /\ Len(last.result.items) = 1
    /\ last.result.trace[1].generated_level = 2
    /\ Has(last.result.trace[1].after_required, "level_requirement")
    /\ last.result.items[1].prefix.name = "keen"
    /\ last.result.items[1].suffix.name = "of_might"
    /\ last.result.items[1].attributes["level_requirement"].initial_value = 2

\* Truncation toward zero of a number given in halves.
TruncatedHalves(h) ==
    CHOOSE t \in (0 - 8)..8 :
      IF h >= 0 THEN 2 * t <= h /\ h < 2 * t + 2
      ELSE 2 * t >= h /\ h > 2 * t - 2

\* An attribute or an affix attribute named "level" is configured.
LevelConfigured ==
    \/ \E k \in DOMAIN item_attributes :
         \E i \in 1..Len(item_attributes[k]) :
           item_attributes[k][i].name = "level"
    \/ \E k \in DOMAIN item_affixes : \E side \in 1..2 :
         \E i \in 1..Len(item_affixes[k][side]) :
           \E j \in 1..Len(item_affixes[k][side][i].attributes) :
             item_affixes[k][side][i].attributes[j].name = "level"

RequiredScopes(item, n) ==
    LET keys == scope_keys(item.item_type, item.subtype)
    IN  {j \in 1..4 :
           /\ Has(item_attributes, keys[j])
           /\ \E i \in 1..Len(item_attributes[keys[j]]) :
                /\ item_attributes[keys[j]][i].name = n
                /\ item_attributes[keys[j]][i].required}

\* The required attribute named n configured at scope position j of item.
RequiredAt(item, n, j) ==
    LET list == item_attributes[scope_keys(item.item_type, item.subtype)[j]]
    IN  list[CHOOSE i \in 1..Len(list) : list[i].name = n /\ list[i].required]

\* C10: when a required attribute of one name is configured at several
\* scopes of an item, the value stored at the end of required-attribute
\* processing is the one computed, from its own configured value, for the
\* last of those scopes in the order (,), (type,), (,subtype),
\* (type,subtype).
C10_LastScopeWins ==
    Generated =>
      \A i \in 1..Len(last.result.items) :
        LET item == last.result.items[i]
            t == last.result.trace[i]
        IN  \A n \in AttributeNames :
              LET scopes == RequiredScopes(item, n)
                  j == CHOOSE x \in scopes : \A y \in scopes : y <= x
              IN  scopes # {} =>
                    /\ Has(t.after_required, n)
                    /\ t.after_required[n] =
                         required_value(RequiredAt(item, n, j),
                                        t.generated_level, last.options)

\* C10 witness: "damage" required at the first and the last scope of a
\* weapon / sword of level 2, linear scaling by 2: the value stored is
\* 4 + 2 * 2, computed from the last scope.
C10_Witness ==
    /\ Generated
    /\ Len(last.result.items) = 1
    /\ RequiredScopes(last.result.items[1], "damage") = {1, 4}
    /\ last.options.linear
    /\ last.result.trace[1].generated_level = 2
    /\ last.result.trace[1].after_required["damage"].initial_value = 8

\* x^n for a whole n >= 0.
RECURSIVE Power(_, _)
Power(x, n) == IF n = 0 THEN 1 ELSE x * Power(x, n - 1)

\* max(0, v)
ZeroFloor(v) == IF v < 0 THEN 0 ELSE v

C12_ScalerBootstrap ==
    sel.called =>
      IF sel.attr.min = 0 /\ sel.attr.max = 0 /\ sel.attr.initial_value # 0
      THEN /\ sel.out.min = sel.attr.initial_value
           /\ sel.out.max = sel.attr.initial_value
      ELSE /\ sel.out.min = sel.attr.min
           /\ sel.out.max = sel.attr.max

\* C12 witness: an attribute of value 2 with zero bounds, scaled to 6, has
\* min = max = 2.
C12_Witness ==
    /\ sel.called
    /\ sel.attr.min = 0 /\ sel.attr.max = 0 /\ sel.attr.initial_value = 2
    /\ sel.out.initial_value = 6
    /\ sel.out.min = 2 /\ sel.out.max = 2

\* The positions of list l that hold an attribute named n.
Named(l, n) == {i \in 1..Len(l) : l[i].name = n}

\* C13: set_attribute with a name that exists at that exact scope adds the
\* new initial_value to the stored one, and the scope's list then holds
\* exactly one attribute of that name; a new name is appended; the lists
\* of the other scopes are as before.
C13_Accumulation ==
    [][\A scope \in CatalogScopes, a \in CatalogAttributes :
         set_attribute(scope[1], scope[2], a) =>
           LET old == IF Has(item_attributes, scope)
                      THEN item_attributes[scope] ELSE <<>>
               new == item_attributes'[scope]
           IN  /\ Named(old, a.name) # {} =>
                    /\ Len(new) = Len(old)
                    /\ Cardinality(Named(new, a.name)) = 1
                    /\ \A i \in Named(new, a.name) :
                         new[i] = [old[i] EXCEPT !.initial_value =
                                                    @ + a.initial_value]
                    /\ \A i \in (1..Len(old)) \ Named(new, a.name) :
                         new[i] = old[i]
               /\ Named(old, a.name) = {} => new = Append(old, a)
               /\ DOMAIN item_attributes' = DOMAIN item_attributes \cup {scope}
               /\ \A k \in DOMAIN item_attributes \ {scope} :
                    item_attributes'[k] = item_attributes[k]]_vars

\* No two attributes of list l have the same name.
UniqueNames(l) ==
    \A i, j \in 1..Len(l) : l[i].name = l[j].name => i = j

\* C14: in every catalog reached by the setters and load_data, no scope's
\* attribute list and no affix's attribute list holds a name twice.
C14_UniqueNames ==
    /\ \A k \in DOMAIN item_attributes : UniqueNames(item_attributes[k])
    /\ \A k \in DOMAIN item_affixes : \A side \in 1..2 :
         \A i \in 1..Len(item_affixes[k][side]) :
           UniqueNames(item_affixes[k][side][i].attributes)

\* C17: a load_data call that returns an error leaves every part of the
\* catalog and the stored loot as they were.
C17_FailedLoadMutatesNothing ==
    [][(last'.op = "load_data" /\ last'.result.kind = "err")
         => (catalog' = catalog /\ loot_list' = loot_list)]_vars

\* C17 witness: load_data has returned an error on a generator holding
\* qualities, attributes, names, affixes and a stored loot.
C17_Witness ==
    /\ last.op = "load_data" /\ last.result.kind = "err"
    /\ DOMAIN quality_data # {}
    /\ DOMAIN item_attributes # {} /\ DOMAIN item_affixes # {}
    /\ DOMAIN item_list # {}
    /\ DOMAIN loot_list # {}

\* The keys mentioned by the entries of a document list.
Mentioned(entries) ==
    {<<entries[i].item_type, entries[i].subtype>> : i \in 1..Len(entries)}

\* The last entry of a document list that mentions key k.
LastEntry(entries, k) ==
    LET hits == {i \in 1..Len(entries) :
                   <<entries[i].item_type, entries[i].subtype>> = k}
    IN  entries[CHOOSE i \in hits : \A j \in hits : j <= i]

\* C18: a successful load_data leaves exactly the document's qualities and
\* item types; in the attribute, name and affix maps the keys the document
\* does not mention keep their entries and the keys it mentions hold the
\* document's.
C18_LoadReplacesAndMerges ==
    [][\A d \in TomlDocuments \ {InvalidToml} :
         load_data(d) =>
           /\ quality_data' = d.quality_data
           /\ item_types' = d.item_types
           /\ DOMAIN item_attributes' =
                DOMAIN item_attributes \cup Mentioned(d.item_attributes)
           /\ \A k \in DOMAIN item_attributes' :
                item_attributes'[k] =
                  IF k \in Mentioned(d.item_attributes)
                  THEN LastEntry(d.item_attributes, k).attributes
                  ELSE item_attributes[k]
           /\ DOMAIN item_list' = DOMAIN item_list \cup Mentioned(d.item_list)
           /\ \A k \in DOMAIN item_list' :
                item_list'[k] =
                  IF k \in Mentioned(d.item_list)
                  THEN LastEntry(d.item_list, k).names
                  ELSE item_list[k]
           /\ DOMAIN item_affixes' =
                DOMAIN item_affixes \cup Mentioned(d.item_affixes)
           /\ \A k \in DOMAIN item_affixes' :
                item_affixes'[k] =
                  IF k \in Mentioned(d.item_affixes)
                  THEN <<LastEntry(d.item_affixes, k).prefixes,
                         LastEntry(d.item_affixes, k).suffixes>>
                  ELSE item_affixes[k]]_vars

\* C18 witness: DocSword has been loaded over names, attributes and
\* affixes set before: only its quality is left, the entries of the scopes
\* it does not mention are kept, and (weapon, sword) holds its entries.
C18_Witness ==
    /\ last.op = "load_data" /\ last.result.kind = "ok"
    /\ quality_data = DocSword.quality_data
    /\ item_types = DocSword.item_types
    /\ Has(item_list, <<"weapon", "axe">>)
    /\ Has(item_list, <<"weapon", "sword">>)
    /\ Has(item_attributes, <<"", "">>)
    /\ Has(item_attributes, <<"weapon", "sword">>)
    /\ item_attributes[<<"weapon", "sword">>] =
         DocSword.item_attributes[1].attributes
    /\ Has(item_affixes, <<"", "">>)
    /\ Has(item_affixes, <<"weapon", "sword">>)

\* Type t is configured, and subtype s under it.
TypeConfigured(t) ==
    \E i \in 1..Len(item_types) : item_types[i].item_type = t

SubtypeConfigured(t, s) ==
    \E i \in 1..Len(item_types) :
      item_types[i].item_type = t /\ s \in DOMAIN item_types[i].subtypes

C16_AttributeWildcard ==
    (last.op = "has_attribute"
       /\ (last.args[1] = "" \/ last.args[2] = "" \/ last.args[3] = ""))
      => last.result = TRUE

\* C16 amended: has_attribute(type, subtype, name) returns true exactly
\* when the type is empty or configured, the type or the subtype is empty
\* or the subtype is configured under the type, and the list stored under
\* exactly the key (type, subtype) holds an attribute named name.
C16_AttributeAtExactScope ==
    last.op = "has_attribute" =>
      LET t == last.args[1]
          s == last.args[2]
          n == last.args[3]
      IN  last.result =
            (/\ t = "" \/ TypeConfigured(t)
             /\ t = "" \/ s = "" \/ SubtypeConfigured(t, s)
             /\ Has(item_attributes, <<t, s>>)
             /\ \E i \in 1..Len(item_attributes[<<t, s>>]) :
                  item_attributes[<<t, s>>][i].name = n)

\* C16 witness: with "damage" configured for (weapon, sword) only,
\* has_attribute("weapon", "", "damage") returned false.
C16_Witness ==
    /\ last.op = "has_attribute"
    /\ last.args = <<"weapon", "", "damage">>
    /\ TypeConfigured("weapon")
    /\ DOMAIN item_attributes = {<<"weapon", "sword">>}
    /\ last.result = FALSE

\* C19: the name of every generated item is an element of the name list
\* stored for exactly the item's (type, subtype) when that list exists and
\* is not empty, and is the item's subtype otherwise; the lists of other
\* scopes play no part.
C19_NameFromExactScope ==
    Generated =>
      \A i \in 1..Len(last.result.items) :
        LET item == last.result.items[i]
            key == <<item.item_type, item.subtype>>
        IN  IF Has(item_list, key) /\ item_list[key] # <<>>
            THEN \E x \in 1..Len(item_list[key]) : item.name = item_list[key][x]
            ELSE item.name = item.subtype

\* C19 witness: lists are set for the wildcard scopes and for
\* (weapon, sword); the two items are named from the latter.
C19_Witness ==
    /\ Generated
    /\ Has(item_list, <<"", "">>) /\ Has(item_list, <<"weapon", "">>)
    /\ Has(item_list, <<"", "sword">>)
    /\ Len(last.result.items) = 2
    /\ last.result.items[1].name = "excalibur"
    /\ last.result.items[2].name = "durendal"

\* The prefixes (side = 1) or suffixes (side = 2) stored at the j-th scope
\* of an item.
AffixesAt(item, j, side) ==
    LET key == scope_keys(item.item_type, item.subtype)[j]
    IN  IF Has(item_affixes, key) THEN item_affixes[key][side] ELSE <<>>

\* Affix a is stored at the j-th scope of the item.
AffixIn(a, item, j, side) ==
    \E x \in 1..Len(AffixesAt(item, j, side)) : AffixesAt(item, j, side)[x] = a

C21_MetadataOverlay ==
    (Generated /\ last.result.kind = "ok") =>
        \A i \in 1..Len(last.result.items) :
            LET item == last.result.items[i]
                sub_key == <<item.item_type, item.subtype>>
                name_key == <<item.item_type, item.subtype, item.name>>
            IN  /\ \A k \in DOMAIN item.metadata :
                     \/ Has(item_name_metadata, name_key)
                          /\ Has(item_name_metadata[name_key], k)
                          /\ item.metadata[k] = item_name_metadata[name_key][k]
                     \/ ~(Has(item_name_metadata, name_key)
                            /\ Has(item_name_metadata[name_key], k))
                          /\ Has(subtype_metadata, sub_key)
                          /\ Has(subtype_metadata[sub_key], k)
                          /\ item.metadata[k] = subtype_metadata[sub_key][k]
                /\ Has(subtype_metadata, sub_key) =>
                     DOMAIN subtype_metadata[sub_key] \subseteq
                       DOMAIN item.metadata
                /\ Has(item_name_metadata, name_key) =>
                     DOMAIN item_name_metadata[name_key] \subseteq
                       DOMAIN item.metadata

\* An excalibur whose "rarity" is overridden by its name, whose "origin"
\* comes from its subtype and whose "lore" comes from its name, in a catalog
\* that also tags the wildcard scopes.
C21_Witness ==
    /\ Generated /\ last.result.kind = "ok"
    /\ Has(subtype_metadata, <<"", "">>)
    /\ Has(item_name_metadata, <<"", "", "excalibur">>)
    /\ \E i \in 1..Len(last.result.items) :
         LET item == last.result.items[i]
         IN  /\ item.name = "excalibur"
             /\ DOMAIN item.metadata = {"rarity", "origin", "lore"}
             /\ item.metadata["rarity"] = "unique"
             /\ item.metadata["origin"] = "forge"
             /\ item.metadata["lore"] = "lake"


\* C22: after any sequence of generate_loot calls, get_loot(key) is the
\* item list returned by the most recent successful call made with that
\* key, as long as that call's number_of_items, and the empty list for a
\* key no successful call used.
C22_LootOfLastSuccess ==
    \A key \in LootKeys \cup {"k3"} :
        IF Has(sel, key)
        THEN /\ get_loot(key) = sel[key].items
             /\ Len(get_loot(key)) = sel[key].number_of_items
        ELSE get_loot(key) = <<>>

\* A failed call with k1 made after k1 got two items and k2 got one.
C22_Witness ==
    /\ Generated /\ last.key = "k1" /\ last.result.kind = "err"
    /\ Len(get_loot("k1")) = 2
    /\ Len(get_loot("k2")) = 1
    /\ get_loot("k1")[1] # get_loot("k1")[2]
    /\ get_loot("k3") = <<>>

\* C30: a failed generate_loot call leaves the stored loot untouched, under
\* the key given and under every other key.
C30_FailureKeepsLoot ==
    [][(last'.op = "generate_loot" /\ last'.result.kind # "ok") =>
         /\ loot_list' = loot_list
         /\ \A key \in LootKeys : get_loot(key)' = get_loot(key)]_vars

\* A call with k1 that failed at its second item, k1 holding two items of
\* an earlier call.
C30_Witness ==
    /\ Generated /\ last.key = "k1" /\ last.result.kind = "err"
    /\ Len(last.result.trace) = 2
    /\ Len(get_loot("k1")) = 2
    /\ Has(loot_list, "k2")

\* The functions of ffi.rs that configure or query a generator, and those
\* that free.
ConfigurationAndQuery ==
    {"praeda_generator_load_toml", "praeda_generator_set_quality_data",
     "praeda_generator_set_item_type", "praeda_generator_set_item_subtype",
     "praeda_generator_set_attribute", "praeda_generator_set_item_names",
     "praeda_generator_set_prefix_attribute",
     "praeda_generator_set_suffix_attribute",
     "praeda_generator_has_quality"}

FreeFunctions ==
    {"praeda_generator_free", "praeda_string_free", "praeda_error_free",
     "praeda_item_array_free"}

HeapObjects(heap) == <<heap.generator, heap.array, heap.version>>

UniqueTypes(types) ==
    \A i, j \in 1..Len(types) :
        types[i].item_type = types[j].item_type => i = j

OthersKept(type_name) ==
    /\ Len(item_types') = Len(item_types)
    /\ \A i \in 1..Len(item_types) :
         /\ item_types'[i].item_type = item_types[i].item_type
         /\ item_types[i].item_type # type_name =>
              item_types'[i] = item_types[i]

\* C24: under set_item_type and set_item_subtype the item-type names stay
\* unique; set_item_type on an existing type changes only its weight and
\* keeps its subtypes; set_item_subtype on a type that does not exist
\* creates it, so that has_item_type and has_item_subtype then hold, and on
\* an existing type changes only the weight of that subtype.
C24_TypeSetters ==
    [][/\ UniqueTypes(item_types')
       /\ \A type_name \in TypeNames, weight \in Weights :
            (last'.op = "set_item_type" /\ set_item_type(type_name, weight)
               /\ has_item_type(type_name)) =>
              /\ OthersKept(type_name)
              /\ \A i \in 1..Len(item_types) :
                   item_types[i].item_type = type_name =>
                     /\ item_types'[i].weight = weight
                     /\ item_types'[i].subtypes = item_types[i].subtypes
       /\ \A type_name \in TypeNames, subtype \in SubtypeNames,
             weight \in Weights :
            (last'.op = "set_item_subtype"
               /\ set_item_subtype(type_name, subtype, weight)) =>
              IF has_item_type(type_name)
              THEN /\ OthersKept(type_name)
                   /\ \A i \in 1..Len(item_types) :
                        item_types[i].item_type = type_name =>
                          /\ item_types'[i].weight = item_types[i].weight
                          /\ DOMAIN item_types'[i].subtypes =
                               DOMAIN item_types[i].subtypes \cup {subtype}
                          /\ item_types'[i].subtypes[subtype] = weight
                          /\ \A s \in DOMAIN item_types[i].subtypes \ {subtype} :
                               item_types'[i].subtypes[s] =
                                 item_types[i].subtypes[s]
              ELSE /\ has_item_type(type_name)'
                   /\ has_item_subtype(type_name, subtype)'
                   /\ Len(item_types') = Len(item_types) + 1
                   /\ \A i \in 1..Len(item_types) :
                        item_types'[i] = item_types[i]]_vars

\* set_item_type has just changed the weight of a weapon that keeps two
\* subtypes, armor having been created by set_item_subtype.
C24_Witness ==
    /\ last.op = "set_item_type"
    /\ Len(item_types) = 2
    /\ item_types[1].item_type = "armor" /\ item_types[1].weight = 0
    /\ item_types[2].item_type = "weapon" /\ item_types[2].weight = 1
    /\ DOMAIN item_types[2].subtypes = {"bow", "sword"}
    /\ DOMAIN item_types[1].subtypes = {"sword"}

\* The prefix or suffix list stored for a scope key, empty when none is.
AffixList(affixes, key, is_prefix) ==
    IF Has(affixes, key)
    THEN (IF is_prefix THEN affixes[key][1] ELSE affixes[key][2])
    ELSE <<>>

AttributeSet(old, new, attribute) ==
    IF \E q \in 1..Len(old) : old[q].name = attribute.name
    THEN /\ Len(new) = Len(old)
         /\ \A q \in 1..Len(old) :
              new[q] = IF old[q].name = attribute.name THEN attribute
                       ELSE old[q]
    ELSE new = Append(old, attribute)

\* C25: set_affix_attribute for an affix name that its list already holds
\* replaces the affix's attribute of the same name, or appends the
\* attribute when its name is new; it adds no affix to the list, and it
\* leaves the other affixes of the list, the list of the other kind and
\* every other scope unchanged.
C25_AffixAttributeReplaced ==
    [][\A key \in {<<"", "">>, <<"weapon", "sword">>}, is_prefix \in BOOLEAN,
          affix_name \in {"keen", "sharp"},
          attribute \in PrefixAttributes :
         LET old == AffixList(item_affixes, key, is_prefix)
             new == AffixList(item_affixes', key, is_prefix)
         IN  (/\ last'.op = IF is_prefix THEN "set_prefix_attribute"
                            ELSE "set_suffix_attribute"
              /\ set_affix_attribute(key[1], key[2], is_prefix, affix_name,
                                     attribute)
              /\ \E p \in 1..Len(old) : old[p].name = affix_name) =>
               /\ Len(new) = Len(old)
               /\ \A p \in 1..Len(old) :
                    /\ new[p].name = old[p].name
                    /\ IF old[p].name = affix_name
                       THEN AttributeSet(old[p].attributes,
                                         new[p].attributes, attribute)
                       ELSE new[p] = old[p]
               /\ AffixList(item_affixes', key, ~is_prefix) =
                    AffixList(item_affixes, key, ~is_prefix)
               /\ DOMAIN item_affixes' = DOMAIN item_affixes
               /\ \A k \in DOMAIN item_affixes \ {key} :
                    item_affixes'[k] = item_affixes[k]]_vars

\* The damage of the global prefix keen has just been replaced by 2, keen
\* keeping its speed, next to the prefix sharp, a suffix keen and a prefix
\* keen of (weapon, sword).
C25_Witness ==
    /\ last.op = "set_prefix_attribute"
    /\ Has(item_affixes, <<"", "">>) /\ Has(item_affixes, <<"weapon", "sword">>)
    /\ Len(item_affixes[<<"", "">>][1]) = 2
    /\ Len(item_affixes[<<"", "">>][2]) = 1
    /\ item_affixes[<<"", "">>][1][1] =
         Affix("keen", <<ItemAttribute("speed", 1, 0, 0, FALSE),
                         ItemAttribute("damage", 2, 0, 0, FALSE)>>)
    /\ item_affixes[<<"", "">>][1][2].name = "sharp"


\* The optional pool of an item: the non-required attributes configured at
\* its four scope keys, in the order of the keys.
OptionalAt(item, j) ==
    LET key == scope_keys(item.item_type, item.subtype)[j]
    IN  IF Has(item_attributes, key)
        THEN SelectSeq(item_attributes[key], LAMBDA a : ~a.required)
        ELSE <<>>

OptionalPool(item) ==
    OptionalAt(item, 1) \o OptionalAt(item, 2) \o OptionalAt(item, 3)
      \o OptionalAt(item, 4)

\* What a successful roll of `attr` makes of the item's attributes, as C26
\* states it: the configured value added to an attribute already carried,
\* the scaled attribute adopted otherwise.
RolledAsStated(attributes, attr, generated_level, options) ==
    Put(attributes, attr.name,
        IF Has(attributes, attr.name)
        THEN [attributes[attr.name] EXCEPT
                !.initial_value = @ + attr.initial_value]
        ELSE generate_value(attr, generated_level, options.linear,
                            options.scaling_factor))

\* The same, but a `_requirement`-named attribute is set to the level.
RolledAmended(attributes, attr, generated_level, options) ==
    IF contains_requirement(attr.name)
    THEN Put(attributes, attr.name,
             set_initial_value(IF Has(attributes, attr.name)
                               THEN attributes[attr.name] ELSE attr,
                               generated_level))
    ELSE RolledAsStated(attributes, attr, generated_level, options)

\* The pool rolled one by one from position i on; a failed roll changes
\* nothing.
RECURSIVE PoolRolled(_, _, _, _, _, _, _)
PoolRolled(attributes, pool, applied, i, generated_level, options, stated) ==
    IF i > Len(pool) THEN attributes
    ELSE PoolRolled(
           IF ~applied[i] THEN attributes
           ELSE IF stated
           THEN RolledAsStated(attributes, pool[i], generated_level, options)
           ELSE RolledAmended(attributes, pool[i], generated_level, options),
           pool, applied, i + 1, generated_level, options, stated)

\* C26 as stated: the optional attributes are rolled one by one on the
\* attributes left by the required ones of all four scopes; a successful
\* roll adds the configured value to an attribute already carried and
\* adopts the scaled attribute otherwise; a failed roll changes nothing.
C26_OptionalAsStated ==
    Generated =>
      \A i \in 1..Len(last.result.items) :
        LET t == last.result.trace[i]
            pool == OptionalPool(last.result.items[i])
        IN  /\ Len(t.applied) = Len(pool)
            /\ t.after_optional =
                 PoolRolled(t.after_required, pool, t.applied, 1,
                            t.generated_level, last.options, TRUE)

\* C26 amended: the same for every name that does not contain
\* `_requirement`; an optional attribute whose name contains it is, on a
\* successful roll, stored with the generated level as its value, whether
\* the item carried it or not.
C26_OptionalAmended ==
    Generated =>
      \A i \in 1..Len(last.result.items) :
        LET t == last.result.trace[i]
            pool == OptionalPool(last.result.items[i])
        IN  /\ Len(t.applied) = Len(pool)
            /\ t.after_optional =
                 PoolRolled(t.after_required, pool, t.applied, 1,
                            t.generated_level, last.options, FALSE)

\* A sword of level 2, linear scaling by 2, with "damage" optional at the
\* first three scopes and required at none: the first roll passes and
\* adopts 1 + 2 * 2, the second fails, the third passes and adds 3.
C26_Witness ==
    /\ Generated /\ last.result.kind = "ok"
    /\ last.options.linear
    /\ LET t == last.result.trace[1]
       IN  /\ t.generated_level = 2
           /\ t.applied = <<TRUE, FALSE, TRUE>>
           /\ ~Has(t.after_required, "damage")
           /\ Has(t.after_optional, "damage")
           /\ t.after_optional["damage"].initial_value = 8


\* The value an affix gives for the name n: that of its attribute of that
\* name, 0 when it has none.
AffixGives(affix, n) ==
    LET pos == PositionByName(affix.attributes, n)
    IN  IF pos = 0 THEN 0 ELSE affix.attributes[pos].initial_value

\* The affixes configured, of kind `which`, at the scope keys of an item.
ConfiguredAffixes(item, which) ==
    LET keys == scope_keys(item.item_type, item.subtype)
    IN  UNION {IF Has(item_affixes, keys[j])
               THEN {item_affixes[keys[j]][which][q] :
                       q \in 1..Len(item_affixes[keys[j]][which])}
               ELSE {} : j \in 1..4}

\* C27: the affix contributions come after the required and the optional
\* attributes, the prefix's before the suffix's, and are not scaled: for a
\* name without `_requirement` the final value is the value after the
\* optional step plus the prefix's plus the suffix's value for that name;
\* an attribute the item does not carry yet is adopted as configured, from
\* the prefix first; the affixes kept in the item's prefix and suffix
\* fields are the configured ones, unmodified.
C27_AffixesAdded ==
    Generated =>
      \A i \in 1..Len(last.result.items) :
        LET item == last.result.items[i]
            before == last.result.trace[i].after_optional
        IN  /\ \A n \in AttributeNames :
                 LET p == AffixGives(item.prefix, n)
                     s == AffixGives(item.suffix, n)
                     pp == PositionByName(item.prefix.attributes, n)
                     sp == PositionByName(item.suffix.attributes, n)
                 IN  ~contains_requirement(n) =>
                       IF Has(before, n)
                       THEN /\ Has(item.attributes, n)
                            /\ item.attributes[n] =
                                 [before[n] EXCEPT
                                    !.initial_value = @ + p + s]
                       ELSE IF pp # 0
                       THEN /\ Has(item.attributes, n)
                            /\ item.attributes[n] =
                                 [item.prefix.attributes[pp] EXCEPT
                                    !.initial_value = @ + s]
                       ELSE IF sp # 0
                       THEN /\ Has(item.attributes, n)
                            /\ item.attributes[n] = item.suffix.attributes[sp]
                       ELSE ~Has(item.attributes, n)
            /\ item.prefix \in ConfiguredAffixes(item, 1) \cup {Affix_empty}
            /\ item.suffix \in ConfiguredAffixes(item, 2) \cup {Affix_empty}

\* A sword with both affixes: its "damage", 9 after the optional step, ends
\* at 9 + 10 + 20 and keeps its own bounds.
C27_Witness ==
    /\ Generated /\ last.result.kind = "ok"
    /\ LET item == last.result.items[1]
           before == last.result.trace[1].after_optional
       IN  /\ item.prefix.name = "keen" /\ item.suffix.name = "of_might"
           /\ Has(before, "damage") /\ before["damage"].initial_value = 9
           /\ item.attributes["damage"].initial_value = 39
           /\ item.attributes["damage"].max = 1
           /\ item.suffix.attributes[1].initial_value = 20

\* A sword with both affixes and no configured "damage": the prefix's
\* attribute is adopted unscaled and the suffix's value added, 10 + 20.
C27_WitnessAdopted ==
    /\ Generated /\ last.result.kind = "ok"
    /\ LET item == last.result.items[1]
       IN  /\ item.prefix.name = "keen" /\ item.suffix.name = "of_might"
           /\ ~Has(last.result.trace[1].after_optional, "damage")
           /\ Has(item.attributes, "damage")
           /\ item.attributes["damage"] = ItemAttribute("damage", 30, 0, 0, FALSE)


\* C28: with affix_chance = 0 nothing chance-based is applied, whatever
\* the random draws: every item has the empty prefix and the empty suffix,
\* and no attribute configured as non-required contributes to it.
C28_NothingByChance ==
    (Generated /\ last.options.affix_chance = 0) =>
      \A i \in 1..Len(last.result.items) :
        LET item == last.result.items[i]
            t == last.result.trace[i]
        IN  /\ item.prefix = Affix_empty
            /\ item.suffix = Affix_empty
            /\ item.attributes = t.after_required

\* The scope keys that configure a non-required attribute named n.
OptionalKeys(n) ==
    {k \in DOMAIN item_attributes :
       \E q \in 1..Len(item_attributes[k]) :
          /\ item_attributes[k][q].name = n
          /\ ~item_attributes[k][q].required}

\* C29: an optional attribute configured at exactly one scope is rolled at
\* most once per item, so that its contribution is applied at most once,
\* for every type and subtype, the empty ones included: the optional step
\* leaves the attributes as they were or as one successful roll makes them.
C29_RolledOnce ==
    Generated =>
      \A i \in 1..Len(last.result.items) :
        LET item == last.result.items[i]
            t == last.result.trace[i]
            pool == OptionalPool(item)
        IN  \A n \in AttributeNames :
              Cardinality(OptionalKeys(n)) = 1 =>
                LET rolls == {q \in 1..Len(pool) : pool[q].name = n}
                    attr == pool[CHOOSE q \in rolls : TRUE]
                IN  rolls # {} =>
                      t.after_optional \in
                        {t.after_required,
                         RolledAmended(t.after_required, attr,
                                       t.generated_level, last.options)}

====
